---------------------------- MODULE Spec2Model ----------------------------
(***************************************************************************)
(* A state-machine model of the JuiceBox PIC/FLIP fluid simulation driver  *)
(* (src/src/simulation/mod.rs, sim_physics_engine.rs, util.rs).            *)
(*                                                                         *)
(* Numbers.  The program computes in f32.  The model computes in fixed     *)
(* point integers:                                                         *)
(*   - one length unit is 1/40 world unit, so cell_size 5 is 200,          *)
(*     particle_radius 2.0 is 80 and the collision tolerance 0.1 is 4;     *)
(*   - one time unit is one tick (timestep 1/120 s), so a velocity is a    *)
(*     displacement per tick and gravity (0, -385) is (0, -1) per tick^2;  *)
(*   - the f32 range is scaled to (NegInf, PosInf): a result outside it    *)
(*     saturates to an infinity, F32Min is the most negative finite value, *)
(*     and NaN is a value of its own that every comparison rejects.        *)
(* Entities are natural numbers; a Query iterates them in ascending order. *)
(***************************************************************************)
EXTENDS Integers, Sequences, FiniteSets, TLC

(***************************************************************************)
(* Bounds of the model.                                                    *)
(***************************************************************************)
Rows == 3
Cols == 3
MaxEntities == 4
MaxFrames == 4
MaxEvents == 2
MaxCalls == 2

(***************************************************************************)
(* Program constants, in model units.                                      *)
(***************************************************************************)
CellSize == 200
ParticleRadius == 80
Tolerance == 4
GravityX == 0
GravityY == -1
CollisionIters == 2
IncompIters == 100
WorldUnit == 40
DensityScale == 1000

(***************************************************************************)
(* f32 arithmetic.                                                         *)
(***************************************************************************)
NaN == 2000001
PosInf == 1000000
NegInf == -1000000
F32Min == -999999
HugeThreshold == 100000

Abs(n) == IF n < 0 THEN -n ELSE n

IsNaN(a) == a = NaN
IsInf(a) == a = PosInf \/ a = NegInf
IsFinite(a) == a # NaN /\ a # PosInf /\ a # NegInf
IsHuge(a) == IsFinite(a) /\ (a >= HugeThreshold \/ a <= -HugeThreshold)

Sat(n) == IF n >= PosInf THEN PosInf ELSE IF n <= NegInf THEN NegInf ELSE n

FNeg(a) == IF a = NaN THEN NaN ELSE -a

\* a + b: NaN is contagious, inf + -inf is NaN, a huge value absorbs a value
\* of normal size, and a sum out of range is an infinity.
FAdd(a, b) ==
    IF a = NaN \/ b = NaN THEN NaN
    ELSE IF b > -HugeThreshold /\ b < HugeThreshold
         THEN (IF a > -HugeThreshold /\ a < HugeThreshold THEN a + b ELSE a)
    ELSE IF a > -HugeThreshold /\ a < HugeThreshold THEN b
    ELSE IF a = PosInf \/ a = NegInf THEN (IF a + b = 0 THEN NaN ELSE a)
    ELSE IF b = PosInf \/ b = NegInf THEN b
    ELSE Sat(a + b)

FSub(a, b) == FAdd(a, FNeg(b))

\* n / d for integers, d > 0, rounded to the nearest integer.
RoundDivPos(n, d) ==
    IF n < 0 THEN -((d \div 2 - n) \div d) ELSE (n + d \div 2) \div d

\* n / d for integers, d # 0, rounded to the nearest integer.
RoundDiv(n, d) == IF d < 0 THEN RoundDivPos(-n, -d) ELSE RoundDivPos(n, d)

\* a * k for a value and a small integer.
FTimes(a, k) ==
    IF a = NaN THEN NaN
    ELSE IF a = PosInf \/ a = NegInf
         THEN (IF k = 0 THEN NaN ELSE IF k > 0 THEN a ELSE -a)
    ELSE Sat(a * k)

\* The infinity with the sign of a * num / den, none of them zero.
SignedInf(a, num, den) ==
    IF ((a < 0) = (num < 0)) = (den > 0) THEN PosInf ELSE NegInf

\* a * (num / den) for a value a and a ratio of two finite values.  den = 0
\* makes the ratio an infinity, or NaN when num = 0; an infinity times zero is
\* NaN.
FScale(a, num, den) ==
    IF a = NaN \/ num = NaN THEN NaN
    ELSE IF den = 0 \/ a = PosInf \/ a = NegInf \/ num >= PosInf \/ num <= NegInf
         THEN (IF a = 0 \/ num = 0 THEN NaN ELSE SignedInf(a, num, IF den = 0 THEN 1 ELSE den))
    ELSE IF (a > -2000 /\ a < 2000) \/ (num > -2000 /\ num < 2000)
         THEN Sat(RoundDiv(a * num, den))
    ELSE IF a > -(2000 * Abs(den)) /\ a < 2000 * Abs(den)
         THEN Sat(RoundDiv(a, den) * num)
    ELSE SignedInf(a, num, den)

\* a / b for two values.
FDiv(a, b) ==
    IF a = NaN \/ b = NaN THEN NaN
    ELSE IF b = PosInf \/ b = NegInf
         THEN (IF a = PosInf \/ a = NegInf THEN NaN ELSE 0)
    ELSE IF b = 0 THEN (IF a = 0 THEN NaN ELSE IF a > 0 THEN PosInf ELSE NegInf)
    ELSE IF a = PosInf \/ a = NegInf THEN SignedInf(a, 1, b)
    ELSE RoundDiv(a, b)

\* Comparisons: false as soon as one side is NaN.
FLt(a, b) == a # NaN /\ b # NaN /\ a < b
FLe(a, b) == a # NaN /\ b # NaN /\ a <= b
FGt(a, b) == a # NaN /\ b # NaN /\ a > b
FGe(a, b) == a # NaN /\ b # NaN /\ a >= b

\* f32::max and f32::min return the other operand when one is NaN.
FMax(a, b) == IF a = NaN THEN b ELSE IF b = NaN THEN a ELSE IF a >= b THEN a ELSE b
FMin(a, b) == IF a = NaN THEN b ELSE IF b = NaN THEN a ELSE IF a <= b THEN a ELSE b

\* `x as usize`: NaN and negative values become 0.
AsUsize(a) == IF a = NaN \/ a < 0 THEN 0 ELSE a

RECURSIVE SqrtIter(_, _, _)
SqrtIter(n, lo, hi) ==
    IF lo >= hi THEN lo
    ELSE LET mid == (lo + hi + 1) \div 2
         IN  IF mid * mid <= n THEN SqrtIter(n, mid, hi)
             ELSE SqrtIter(n, lo, mid - 1)

\* The integer square root of n >= 0 (n below 2^31).
ISqrt(n) == SqrtIter(n, 0, 46340)

FFloorDiv(a, d) == IF a = NaN \/ a = PosInf \/ a = NegInf THEN a ELSE a \div d

\* `x as u16`: NaN and negative values become 0, large values 65535.
AsU16(a) == IF a = NaN \/ a < 0 THEN 0 ELSE IF a > 65535 THEN 65535 ELSE a

(***************************************************************************)
(* Vectors.  A position or velocity is <<x, y>>; cell coordinates are      *)
(* <<row, column>>.                                                        *)
(***************************************************************************)
VAdd(a, b) == <<FAdd(a[1], b[1]), FAdd(a[2], b[2])>>
VSub(a, b) == <<FSub(a[1], b[1]), FSub(a[2], b[2])>>
Gravity == <<GravityX, GravityY>>

\* |a - b|^2 for two positions of normal size; NaN or infinite otherwise.
DistanceSquared(a, b) ==
    LET LengthSquared(dx, dy) ==
            IF dx = NaN \/ dy = NaN THEN NaN
            ELSE IF dx > 30000 \/ dx < -30000 \/ dy > 30000 \/ dy < -30000 THEN PosInf
            ELSE dx * dx + dy * dy
    IN  LengthSquared(FSub(a[1], b[1]), FSub(a[2], b[2]))

(***************************************************************************)
(* Sequences used as Vec<T>.                                               *)
(***************************************************************************)
\* TRUE.  TLC computes an operator's argument when it is first used; a loop
\* that tests Computed(value) before its next round has the value computed
\* round by round, and not as one nested computation at the end.
Computed(value) == value = value

\* Entity::PLACEHOLDER; real entities are 1, 2, ...
PLACEHOLDER == 0

Contains(s, e) == \E i \in 1..Len(s) : s[i] = e

FirstIndex(s, e) == CHOOSE i \in 1..Len(s) : s[i] = e /\ \A j \in 1..(i - 1) : s[j] # e

\* Vec::swap_remove(i): the last element takes the place of element i.
SwapRemove(s, i) ==
    IF i = Len(s) THEN SubSeq(s, 1, Len(s) - 1)
    ELSE [SubSeq(s, 1, Len(s) - 1) EXCEPT ![i] = s[Len(s)]]

RECURSIVE SetToSeq(_)
\* The elements of a finite set of integers in ascending order.
SetToSeq(S) ==
    IF S = {} THEN <<>>
    ELSE LET m == CHOOSE x \in S : \A y \in S : x <= y
         IN  <<m>> \o SetToSeq(S \ {m})

(***************************************************************************)
(* SimGrid: geometry.                                                      *)
(***************************************************************************)
GridWidth == Cols * CellSize
GridHeight == Rows * CellSize
HalfCell == CellSize \div 2
CellCount == Rows * Cols

RowIdx == 0..(Rows - 1)
ColIdx == 0..(Cols - 1)

get_cell_type_value(grid, cell_row, cell_col) ==
    IF cell_row >= Rows \/ cell_col >= Cols THEN 0
    ELSE IF grid.cell_type[cell_row][cell_col] = "Solid" THEN 0
    ELSE 1

get_hypothetical_cell_coordinates_from_position(position) ==
    << FFloorDiv(FSub(GridHeight, position[2]), CellSize),
       FFloorDiv(position[1], CellSize) >>

get_cell_coordinates_from_position(position) ==
    << FMin(Rows - 1, FMax(0, FFloorDiv(FSub(GridHeight, position[2]), CellSize))),
       FMin(Cols - 1, FMax(0, FFloorDiv(position[1], CellSize))) >>

get_cell_position_from_coordinates(coordinates) ==
    LET grid_max_x_bound == GridWidth
        grid_max_y_bound == GridHeight - CellSize
    IN  << FMin(grid_max_x_bound, FMax(0, FTimes(coordinates[2], CellSize))),
           FMin(grid_max_y_bound,
                FMax(0, FSub(grid_max_y_bound, FTimes(coordinates[1], CellSize)))) >>

get_cell_center_position_from_coordinates(coordinates) ==
    LET cell_x == FTimes(coordinates[2], CellSize)
        cell_y == FTimes(coordinates[1], CellSize)
    IN  << FAdd(cell_x, HalfCell),
           FSub(FSub(GridHeight, cell_y), HalfCell) >>

is_position_within_grid(position) ==
    /\ ~(position[1] # NaN /\ (position[1] < 0 \/ position[1] > GridWidth))
    /\ ~(position[2] # NaN /\ (position[2] < 0 \/ position[2] > GridHeight))

get_lookup_index(grid, cell_coordinates) ==
    ((AsU16(cell_coordinates[1]) * grid.dimensions[2]) + AsU16(cell_coordinates[2]))
        % 65536

\* World position of the MAC face u[row][col] (horizontal) or v[row][col].
get_velocity_point_pos(row_index, col_index, horizontal) ==
    IF horizontal
    THEN << col_index * CellSize, GridHeight - (row_index * CellSize + HalfCell) >>
    ELSE << col_index * CellSize + HalfCell, GridHeight - (row_index * CellSize) >>

(***************************************************************************)
(* SimGrid: cell selection.                                                *)
(***************************************************************************)
RECURSIVE SelectCells(_, _, _, _, _)
\* The double loop of select_grid_cells: x index outer, y index inner; a
\* cell position outside the grid is not added.
SelectCells(min_bound, x_count, y_count, xi, yi) ==
    IF xi >= x_count THEN <<>>
    ELSE IF yi >= y_count THEN SelectCells(min_bound, x_count, y_count, xi + 1, 0)
    ELSE LET cell_position == << min_bound[1] + xi * CellSize,
                                 min_bound[2] + yi * CellSize >>
             rest == SelectCells(min_bound, x_count, y_count, xi, yi + 1)
         IN  IF is_position_within_grid(cell_position)
             THEN <<get_cell_coordinates_from_position(cell_position)>> \o rest
             ELSE rest

select_grid_cells(position, radius) ==
    LET adj_radius == IF HalfCell >= radius THEN HalfCell ELSE radius
        span       == ((2 * adj_radius) + CellSize) \div CellSize
    IN  IF ~IsFinite(position[1]) \/ ~IsFinite(position[2])
           \/ IsHuge(position[1]) \/ IsHuge(position[2])
        THEN <<>>
        ELSE SelectCells(<<position[1] - adj_radius, position[2] - adj_radius>>,
                         span, span, 0, 0)

(***************************************************************************)
(* SimGrid: spatial lookup.                                                *)
(***************************************************************************)
\* spatial_lookup and density are Vec: element i of the vector is element
\* i + 1 of the sequence.
add_particle_to_lookup(grid, particle_id, lookup_index) ==
    IF lookup_index > Len(grid.spatial_lookup) THEN grid
    ELSE [grid EXCEPT !.spatial_lookup[lookup_index + 1] = Append(@, particle_id)]

remove_particle_from_lookup(grid, particle_id, lookup_index) ==
    IF lookup_index > Len(grid.spatial_lookup) THEN grid
    ELSE IF ~Contains(grid.spatial_lookup[lookup_index + 1], particle_id) THEN grid
    ELSE [grid EXCEPT !.spatial_lookup[lookup_index + 1] =
              SwapRemove(@, FirstIndex(@, particle_id))]

get_particles_in_lookup(grid, lookup_index) ==
    IF lookup_index >= grid.dimensions[1] * grid.dimensions[2] THEN <<>>
    ELSE SelectSeq(grid.spatial_lookup[lookup_index + 1], LAMBDA e : e # PLACEHOLDER)


(***************************************************************************)
(* SimGrid: density.                                                       *)
(***************************************************************************)
clear_density_values(grid) ==
    [grid EXCEPT !.density = [i \in 1..Len(grid.density) |-> 0]]

\* 1 / max(1, d^2) for a squared distance d^2 given in model length units,
\* scaled by DensityScale.
InvDensityWeight(distance_squared) ==
    LET one == WorldUnit * WorldUnit
    IN  IF IsNaN(distance_squared) THEN DensityScale
        ELSE IF IsInf(distance_squared) THEN 0
        ELSE RoundDiv(one * DensityScale,
                      IF distance_squared > one THEN distance_squared ELSE one)

RECURSIVE AddCellDensities(_, _, _, _, _)
\* The loop of update_grid_density over the selected cells: returns the
\* density array and the sum of the weights.
AddCellDensities(grid, density, cells, k, particle_position) ==
    IF k > Len(cells) THEN [density |-> density, density_sum |-> 0]
    ELSE LET current_cell_center(current_cell_position) ==
                 << FAdd(current_cell_position[1], HalfCell),
                    FSub(current_cell_position[2], HalfCell) >>
             Added(inv_density_weight, rest) ==
                 [density |-> rest.density,
                  density_sum |-> FAdd(inv_density_weight, rest.density_sum)]
             Add(cell_lookup_index, inv_density_weight) ==
                 Added(inv_density_weight,
                       AddCellDensities(
                           grid,
                           [density EXCEPT ![cell_lookup_index + 1] =
                               FAdd(@, inv_density_weight)],
                           cells, k + 1, particle_position))
         IN  Add(get_lookup_index(grid, cells[k]),
                 InvDensityWeight(DistanceSquared(
                     particle_position,
                     current_cell_center(get_cell_position_from_coordinates(cells[k])))))

update_grid_density(grid, particle_position) ==
    LET center_cell_lookup_index ==
            get_lookup_index(grid, get_cell_coordinates_from_position(particle_position))
        Balance(added, valid_cell_count) ==
            [grid EXCEPT !.density =
                [added.density EXCEPT ![center_cell_lookup_index + 1] =
                    FAdd(@, FTimes(FDiv(added.density_sum, valid_cell_count),
                                   9 - valid_cell_count))]]
        Weigh(nearby_cells) ==
            Balance(AddCellDensities(grid, grid.density, nearby_cells, 1,
                                     particle_position),
                    Len(nearby_cells))
    IN  Weigh(select_grid_cells(particle_position, CellSize))

(***************************************************************************)
(* Particle integration with solid collisions.                             *)
(***************************************************************************)
integrate_particle_with_collisions(grid, particle, target_position, target_velocity) ==
    LET \* One axis of the collision with the cell between low and high
        \* (cell_left and cell_right, or cell_bottom and cell_top): the new
        \* <<position, velocity>> on that axis.
        Axis(position, target, low, high, velocity) ==
            IF FLe(position, low) /\ FGe(target, low) THEN <<FSub(low, Tolerance), 0>>
            ELSE IF FGe(position, high) /\ FLe(target, high)
                 THEN <<FAdd(high, Tolerance), 0>>
            ELSE <<target, velocity>>
        Collided(x, y) ==
            [particle EXCEPT !.position = <<x[1], y[1]>>, !.velocity = <<x[2], y[2]>>]
        Collide(cell_center) ==
            Collided(Axis(particle.position[1], target_position[1],
                          FSub(cell_center[1], HalfCell), FAdd(cell_center[1], HalfCell),
                          target_velocity[1]),
                     Axis(particle.position[2], target_position[2],
                          FSub(cell_center[2], HalfCell), FAdd(cell_center[2], HalfCell),
                          target_velocity[2]))
        Integrate(target_coordinates) ==
            IF /\ is_position_within_grid(target_position)
               /\ get_cell_type_value(grid, AsUsize(target_coordinates[1]),
                                            AsUsize(target_coordinates[2])) # 0
            THEN [particle EXCEPT !.position = target_position,
                                  !.velocity = target_velocity]
            ELSE Collide(get_cell_center_position_from_coordinates(target_coordinates))
    IN  Integrate(get_hypothetical_cell_coordinates_from_position(target_position))

\* Returns the grid and the particle after the lookup table has been updated.
update_particle_lookup(particle_id, particle, grid) ==
    LET Update(lookup_index) ==
            IF ~Contains(grid.spatial_lookup[lookup_index + 1], particle_id)
            THEN [grid |-> [remove_particle_from_lookup(grid, particle_id,
                                                        particle.lookup_index)
                               EXCEPT !.spatial_lookup[lookup_index + 1] =
                                          Append(@, particle_id)],
                  particle |-> [particle EXCEPT !.lookup_index = lookup_index]]
            ELSE [grid |-> grid, particle |-> particle]
    IN  Update(get_lookup_index(grid,
                                get_cell_coordinates_from_position(particle.position)))

RECURSIVE UpdateEachParticle(_, _, _, _)
\* The loop of update_particles over the query, in entity order.
UpdateEachParticle(grid, particles, ids, k) ==
    IF k > Len(ids) THEN [grid |-> grid, particles |-> particles]
    ELSE LET Density(looked) ==
                 UpdateEachParticle(
                     update_grid_density(looked.grid, looked.particle.position),
                     [particles EXCEPT ![ids[k]] = looked.particle], ids, k + 1)
             Move(particle, target_velocity) ==
                 Density(update_particle_lookup(
                     ids[k],
                     integrate_particle_with_collisions(
                         grid, particle, VAdd(particle.position, target_velocity),
                         target_velocity),
                     grid))
         IN  Move(particles[ids[k]], VAdd(particles[ids[k]].velocity, Gravity))

update_particles(grid, particles) ==
    UpdateEachParticle(clear_density_values(grid), particles,
                       SetToSeq(DOMAIN particles), 1)

(***************************************************************************)
(* Boundary clamp.                                                         *)
(***************************************************************************)
\* A faulty clamp that forgets the left and bottom borders.
ClampHighOnly(particle) ==
    LET hi_x == FGt(particle.position[1], GridWidth - ParticleRadius)
        hi_y == FGt(particle.position[2], GridHeight - ParticleRadius)
    IN  [particle EXCEPT
            !.position = << IF hi_x THEN GridWidth - ParticleRadius ELSE @[1],
                            IF hi_y THEN GridHeight - ParticleRadius ELSE @[2] >>,
            !.velocity = << IF hi_x THEN 0 ELSE @[1], IF hi_y THEN 0 ELSE @[2] >>]

ClampParticle(particle) ==
    LET px == particle.position[1]
        py == particle.position[2]
        lo_x == FLt(px, ParticleRadius)
        hi_x == ~lo_x /\ FGt(px, GridWidth - ParticleRadius)
        lo_y == FLt(py, ParticleRadius)
        hi_y == ~lo_y /\ FGt(py, GridHeight - ParticleRadius)
    IN  [particle EXCEPT
            !.position = << IF lo_x THEN ParticleRadius
                            ELSE IF hi_x THEN GridWidth - ParticleRadius ELSE px,
                            IF lo_y THEN ParticleRadius
                            ELSE IF hi_y THEN GridHeight - ParticleRadius ELSE py >>,
            !.velocity = << IF lo_x \/ hi_x THEN 0 ELSE particle.velocity[1],
                            IF lo_y \/ hi_y THEN 0 ELSE particle.velocity[2] >>]

handle_particle_grid_collisions(particles) ==
    [id \in DOMAIN particles |-> ClampParticle(particles[id])]


(***************************************************************************)
(* Particle-particle separation.                                           *)
(***************************************************************************)
\* The lookup indices whose buckets get_nearby_particles reads, in order.
CellsToCheck(grid, lookup_index) ==
    LET col_count == grid.dimensions[2]
        len == Len(grid.spatial_lookup)
        is_cell_on_right_border == lookup_index % (col_count - 1) = 0
        is_cell_on_left_border  == lookup_index % col_count = 0
        this_row ==
            <<lookup_index>>
            \o (IF lookup_index > 0 /\ ~is_cell_on_left_border
                THEN <<lookup_index - 1>> ELSE <<>>)
            \o (IF lookup_index < len /\ ~is_cell_on_right_border
                THEN <<lookup_index + 1>> ELSE <<>>)
        previous_row ==
            IF lookup_index >= col_count
            THEN <<lookup_index - col_count>>
                 \o (IF ~is_cell_on_left_border
                     THEN <<lookup_index - col_count - 1>> ELSE <<>>)
                 \o (IF ~is_cell_on_right_border
                     THEN <<lookup_index - col_count + 1>> ELSE <<>>)
            ELSE <<>>
        next_row ==
            IF lookup_index <= len - col_count
            THEN <<lookup_index + col_count>>
                 \o (IF ~is_cell_on_left_border
                     THEN <<lookup_index + col_count - 1>> ELSE <<>>)
                 \o (IF lookup_index < len - col_count /\ ~is_cell_on_right_border
                     THEN <<lookup_index + col_count + 1>> ELSE <<>>)
            ELSE <<>>
    IN  this_row \o previous_row \o next_row

RECURSIVE ConcatBuckets(_, _, _)
ConcatBuckets(grid, cells, k) ==
    IF k > Len(cells) THEN <<>>
    ELSE get_particles_in_lookup(grid, cells[k]) \o ConcatBuckets(grid, cells, k + 1)

get_nearby_particles(grid, lookup_index) ==
    ConcatBuckets(grid, CellsToCheck(grid, lookup_index), 1)

\* get_nearby_particles panics: it takes lookup_index modulo col_count - 1
\* and subtracts col_count from the length of the lookup, both in usize, and
\* it reads the bucket of every index below rows * cols.
get_nearby_particles_panics(grid) ==
    \/ grid.dimensions[2] - 1 = 0
    \/ Len(grid.spatial_lookup) < grid.dimensions[2]
    \/ grid.dimensions[1] * grid.dimensions[2] > Len(grid.spatial_lookup)

\* Returns the two particles of the pair after they have been pushed apart.
separate_particle_pair(grid, particle0, particle1) ==
    LET collision_radius == ParticleRadius * 2
        Move(delta_position) ==
            << integrate_particle_with_collisions(
                   grid, particle0, VAdd(particle0.position, delta_position),
                   particle0.velocity),
               integrate_particle_with_collisions(
                   grid, particle1, VSub(particle1.position, delta_position),
                   particle1.velocity) >>
        \* delta_position * 0.5 * (collision_radius - distance) / distance
        Scaled(dx, dy, distance) ==
            << RoundDiv(dx * (collision_radius - distance), 2 * distance),
               RoundDiv(dy * (collision_radius - distance), 2 * distance) >>
        Separate(dx, dy, distance_squared) ==
            IF \/ FGt(distance_squared, collision_radius * collision_radius)
               \/ FLe(distance_squared, 0)
            THEN <<particle0, particle1>>
            ELSE Move(IF distance_squared = NaN THEN <<NaN, NaN>>
                      ELSE Scaled(dx, dy, ISqrt(distance_squared)))
    IN  Separate(FSub(particle0.position[1], particle1.position[1]),
                 FSub(particle0.position[2], particle1.position[2]),
                 DistanceSquared(particle0.position, particle1.position))

RECURSIVE SeparatePairs(_, _, _, _, _)
\* The two nested loops over the nearby particles of one bucket.  A pair with
\* an entity the query does not hold (get_many_mut fails) is skipped.
SeparatePairs(grid, particles, nearby, i, j) ==
    IF i > Len(nearby) THEN particles
    ELSE IF j > Len(nearby) THEN SeparatePairs(grid, particles, nearby, i + 1, 1)
    ELSE LET Store(particle0_id, particle1_id, pair) ==
                 SeparatePairs(grid,
                     [particles EXCEPT ![particle0_id] = pair[1], ![particle1_id] = pair[2]],
                     nearby, i, j + 1)
         IN  IF \/ nearby[i] = nearby[j]
                \/ nearby[i] \notin DOMAIN particles
                \/ nearby[j] \notin DOMAIN particles
             THEN SeparatePairs(grid, particles, nearby, i, j + 1)
             ELSE Store(nearby[i], nearby[j],
                        separate_particle_pair(grid, particles[nearby[i]],
                                               particles[nearby[j]]))

RECURSIVE SeparateBuckets(_, _, _)
\* The loop over the lookup indices.
SeparateBuckets(grid, particles, lookup_index) ==
    IF lookup_index >= Len(grid.spatial_lookup) THEN particles
    ELSE LET Continue(separated) ==
                 IF Computed(separated)
                 THEN SeparateBuckets(grid, separated, lookup_index + 1)
                 ELSE particles
         IN  Continue(SeparatePairs(grid, particles,
                                    get_nearby_particles(grid, lookup_index), 1, 1))

RECURSIVE SeparateIters(_, _, _)
\* The loop over collision_iters_per_frame.
SeparateIters(grid, particles, iters) ==
    IF iters = 0 THEN particles
    ELSE LET Continue(separated) ==
                 IF Computed(separated)
                 THEN SeparateIters(grid, separated, iters - 1)
                 ELSE particles
         IN  Continue(SeparateBuckets(grid, particles, 0))

push_particles_apart(grid, particles) ==
    SeparateIters(grid, particles, CollisionIters)

\* push_particles_apart calls get_nearby_particles for every bucket, in every
\* iteration.
push_particles_apart_panics(grid) ==
    /\ CollisionIters >= 1
    /\ Len(grid.spatial_lookup) >= 1
    /\ get_nearby_particles_panics(grid)

(***************************************************************************)
(* Cell classification.                                                    *)
(***************************************************************************)
\* A faulty label_cells that classifies by the buckets alone.
LabelsByBucketsAlone(grid) ==
    [grid EXCEPT !.cell_type =
        [row \in 0..(grid.dimensions[1] - 1) |-> [col \in 0..(grid.dimensions[2] - 1) |->
            IF Len(get_particles_in_lookup(grid, get_lookup_index(grid, <<row, col>>))) = 0
            THEN "Air"
            ELSE "Fluid"]]]

label_cells(grid) ==
    [grid EXCEPT !.cell_type =
        [row \in 0..(grid.dimensions[1] - 1) |-> [col \in 0..(grid.dimensions[2] - 1) |->
            IF grid.cell_type[row][col] = "Solid" THEN "Solid"
            ELSE IF Len(get_particles_in_lookup(grid, get_lookup_index(grid, <<row, col>>))) = 0
                 THEN "Air"
                 ELSE "Fluid"]]]

(***************************************************************************)
(* Particle-to-grid transfer.                                              *)
(***************************************************************************)
\* The influence of a particle on a grid point, scaled by CellSize.
find_influence(particle_pos, grid_point) ==
    LET Influence(distance_squared) ==
            IF distance_squared = NaN \/ distance_squared = PosInf THEN 0
            ELSE IF distance_squared > (9 * CellSize * CellSize) \div 4 THEN 0
            ELSE IF distance_squared > 0 THEN CellSize - ISqrt(distance_squared)
            ELSE 0
    IN  Influence(DistanceSquared(grid_point, particle_pos))

RECURSIVE InfluenceSums(_, _, _, _, _)
\* The for_each over the query at one velocity point: the sums of the
\* influences and of the influence-scaled velocity components.
InfluenceSums(particles, ids, k, pos, component) ==
    IF k > Len(ids) THEN [velocity |-> 0, influence |-> 0]
    ELSE LET Add(velocity, influence, rest) ==
                 IF influence # 0
                 THEN [velocity |-> FAdd(FTimes(velocity, influence), rest.velocity),
                       influence |-> influence + rest.influence]
                 ELSE rest
         IN  Add(particles[ids[k]].velocity[component],
                 find_influence(particles[ids[k]].position, pos),
                 InfluenceSums(particles, ids, k + 1, pos, component))

PointVelocity(particles, pos, component) ==
    LET Scaled(sums) ==
            IF sums.influence = 0 THEN 0 ELSE FDiv(sums.velocity, sums.influence)
    IN  Scaled(InfluenceSums(particles, SetToSeq(DOMAIN particles), 1, pos, component))

\* True when particles_to_grid leaves the velocity point at f32::MIN.
SkipsPoint(grid, first_center, second_center) ==
    LET Skips(first_type, second_type) ==
            \/ first_type = "Air" /\ second_type = "Air"
            \/ first_type = "Solid" /\ second_type = "Solid"
        TypeAt(coords) == grid.cell_type[coords[1]][coords[2]]
    IN  Skips(TypeAt(get_cell_coordinates_from_position(first_center)),
              TypeAt(get_cell_coordinates_from_position(second_center)))

particles_to_grid(grid, particles) ==
    [grid EXCEPT
        !.velocity_u = [row_index \in RowIdx |-> [col_index \in 0..Cols |->
            LET pos == get_velocity_point_pos(row_index, col_index, TRUE)
                left_center  == <<pos[1] - HalfCell, pos[2]>>
                right_center == <<pos[1] + HalfCell, pos[2]>>
            IN  IF left_center[1] < 0 \/ right_center[1] > GridWidth THEN F32Min
                ELSE IF SkipsPoint(grid, left_center, right_center) THEN F32Min
                ELSE PointVelocity(particles, pos, 1)]],
        !.velocity_v = [row_index \in 0..Rows |-> [col_index \in ColIdx |->
            LET pos == get_velocity_point_pos(row_index, col_index, FALSE)
                bottom_center == <<pos[1], pos[2] - HalfCell>>
                top_center    == <<pos[1], pos[2] + HalfCell>>
            IN  IF bottom_center[2] < 0 \/ top_center[2] > GridHeight THEN F32Min
                ELSE IF SkipsPoint(grid, bottom_center, top_center) THEN F32Min
                ELSE PointVelocity(particles, pos, 2)]]]

create_change_grid(old_grid, new_grid) ==
    [old_grid EXCEPT
        !.velocity_u = [row_index \in RowIdx |-> [col_index \in 0..Cols |->
            FSub(new_grid.velocity_u[row_index][col_index],
                 old_grid.velocity_u[row_index][col_index])]],
        !.velocity_v = [row_index \in 0..Rows |-> [col_index \in ColIdx |->
            FSub(new_grid.velocity_v[row_index][col_index],
                 old_grid.velocity_v[row_index][col_index])]]]

(***************************************************************************)
(* Extrapolation of face velocities.                                       *)
(***************************************************************************)
I32Max == 2147483647

\* The offsets <<offset_x, offset_y>> of the eight surrounding points.
surrounding ==
    << <<-1, 1>>, <<-1, 0>>, <<-1, -1>>, <<0, 1>>, <<0, -1>>, <<1, 1>>, <<1, 0>>, <<1, -1>> >>

\* The neighbours <<row, col>> of a point that lie inside the array, in the
\* order of the offsets.
ValidNeighbors(row_set, col_set, index) ==
    LET all == [k \in 1..8 |-> <<index[1] + surrounding[k][2], index[2] + surrounding[k][1]>>]
    IN  SelectSeq(all, LAMBDA n : n[1] \in row_set /\ n[2] \in col_set)

check_surrounding(d, row_set, col_set, index, value) ==
    SelectSeq(ValidNeighbors(row_set, col_set, index), LAMBDA n : d[n[1]][n[2]] = value)

RECURSIVE SumAt(_, _, _)
SumAt(velocity, points, k) ==
    IF k > Len(points) THEN 0
    ELSE FAdd(velocity[points[k][1]][points[k][2]], SumAt(velocity, points, k + 1))

RECURSIVE ExtrapolateWaves(_, _, _, _, _, _)
\* The while loop of extrapolate_values for one velocity array: the points at
\* distance `level` take the average of their neighbours of smaller distance,
\* and their neighbours of distance MAX form the next wave.
ExtrapolateWaves(velocity, d, row_set, col_set, level, depth) ==
    IF level > depth THEN velocity
    ELSE LET used(index) ==
                 SelectSeq(ValidNeighbors(row_set, col_set, index),
                           LAMBDA n : d[n[1]][n[2]] < level)
             new_velocity == [row \in row_set |-> [col \in col_set |->
                 IF d[row][col] = level
                 THEN FDiv(SumAt(velocity, used(<<row, col>>), 1), Len(used(<<row, col>>)))
                 ELSE velocity[row][col]]]
             new_d == [row \in row_set |-> [col \in col_set |->
                 IF d[row][col] = I32Max
                    /\ Len(check_surrounding(d, row_set, col_set, <<row, col>>, level)) # 0
                 THEN level + 1
                 ELSE d[row][col]]]
         IN  ExtrapolateWaves(new_velocity, new_d, row_set, col_set, level + 1, depth)

ExtrapolateArray(velocity, row_set, col_set, depth) ==
    LET d0 == [row \in row_set |-> [col \in col_set |->
                  IF velocity[row][col] # F32Min THEN 0 ELSE I32Max]]
        d1 == [row \in row_set |-> [col \in col_set |->
                  IF d0[row][col] # 0
                     /\ Len(check_surrounding(d0, row_set, col_set, <<row, col>>, 0)) # 0
                  THEN 1 ELSE d0[row][col]]]
    IN  ExtrapolateWaves(velocity, d1, row_set, col_set, 1, depth)

\* A faulty extrapolate_values that fills no face.
ExtrapolatesNothing(grid, depth) == grid

extrapolate_values(grid, depth) ==
    [grid EXCEPT
        !.velocity_u = ExtrapolateArray(grid.velocity_u, RowIdx, 0..Cols, depth),
        !.velocity_v = ExtrapolateArray(grid.velocity_v, 0..Rows, ColIdx, depth)]

(***************************************************************************)
(* Pressure projection (Gauss-Seidel).                                     *)
(***************************************************************************)
TicksPerSecond == 120
UsizeMax == 2147483647

\* usize::wrapping_sub(n, 1)
WrappingSub1(n) == IF n = 0 THEN UsizeMax ELSE n - 1

\* center, left, right, up, down
\* A neighbourhood read without looking at the cell types: every side open.
every_side_open(grid, cell_row, cell_col) == << 1, 1, 1, 1, 1 >>

calculate_cell_solids(grid, cell_row, cell_col) ==
    << get_cell_type_value(grid, cell_row, cell_col),
       get_cell_type_value(grid, cell_row, WrappingSub1(cell_col)),
       get_cell_type_value(grid, cell_row, cell_col + 1),
       get_cell_type_value(grid, WrappingSub1(cell_row), cell_col),
       get_cell_type_value(grid, cell_row + 1, cell_col) >>

calculate_cell_divergence(grid, cell_row, cell_col) ==
    LET left_velocity  == grid.velocity_u[cell_row][cell_col]
        right_velocity == grid.velocity_u[cell_row][cell_col + 1]
        up_velocity    == grid.velocity_v[cell_row][cell_col]
        down_velocity  == grid.velocity_v[cell_row + 1][cell_col]
    IN  FAdd(FSub(right_velocity, left_velocity), FSub(up_velocity, down_velocity))

RECURSIVE SumSeq(_, _)
SumSeq(values, k) ==
    IF k > Len(values) THEN 0 ELSE FAdd(values[k], SumSeq(values, k + 1))

\* The rest density make_grid_velocities_incompressible stores on every call.
RestDensity(grid, particle_rest_density) ==
    IF Len(grid.density) > 0
    THEN FDiv(SumSeq(grid.density, 1), Len(grid.density))
    ELSE particle_rest_density

\* One visit of the Gauss-Seidel sweep to the cell (row, col).
ProjectCell(grid, particle_rest_density, row, col) ==
    LET \* solids: center, left, right, up, down
        Force(momentum, solids) ==
            [grid EXCEPT
                !.velocity_u[row][col]     = FSub(@, FTimes(momentum, solids[2])),
                !.velocity_u[row][col + 1] = FAdd(@, FTimes(momentum, solids[3])),
                !.velocity_v[row][col]     = FAdd(@, FTimes(momentum, solids[4])),
                !.velocity_v[row + 1][col] = FSub(@, FTimes(momentum, solids[5]))]
        Compress(divergence, compression) ==
            IF FGt(particle_rest_density, 0) /\ FGt(compression, 0)
            THEN FSub(divergence,
                      FScale(compression, WorldUnit, DensityScale * TicksPerSecond))
            ELSE divergence
        Project(solids, solids_sum) ==
            IF solids_sum = 0 THEN grid
            ELSE Force(FScale(FNeg(Compress(
                                  calculate_cell_divergence(grid, row, col),
                                  FSub(grid.density[get_lookup_index(grid, <<row, col>>) + 1],
                                       particle_rest_density))),
                              199, 100 * solids_sum),
                       solids)
        Sum(solids) == Project(solids, solids[2] + solids[3] + solids[4] + solids[5])
    IN  IF grid.cell_type[row][col] # "Fluid" THEN grid
        ELSE Sum(calculate_cell_solids(grid, row, col))

RECURSIVE ProjectSweep(_, _, _, _)
ProjectSweep(grid, particle_rest_density, row, col) ==
    IF row >= Rows THEN grid
    ELSE IF col >= Cols THEN ProjectSweep(grid, particle_rest_density, row + 1, 0)
    ELSE LET Visit(projected) ==
                 IF Computed(projected)
                 THEN ProjectSweep(projected, particle_rest_density, row, col + 1)
                 ELSE grid
         IN  Visit(ProjectCell(grid, particle_rest_density, row, col))

RECURSIVE ProjectIters(_, _, _)
\* The loop over incomp_iters_per_frame: `iters` sweeps, one after the other
\* (the first, then half of the others, then the rest of them).  A sweep that
\* changes nothing is the last one computed: every later sweep would change
\* nothing either.
ProjectIters(grid, particle_rest_density, iters) ==
    LET Rest(half) ==
            ProjectIters(half, particle_rest_density,
                         (iters - 1) - ((iters - 1) \div 2))
        After(swept) ==
            IF swept = grid \/ iters = 1 THEN swept
            ELSE Rest(ProjectIters(swept, particle_rest_density, (iters - 1) \div 2))
    IN  IF iters = 0 THEN grid
        ELSE After(ProjectSweep(grid, particle_rest_density, 0, 0))

\* Returns the grid and the constraints.
make_grid_velocities_incompressible(grid, constraints) ==
    LET rest == RestDensity(grid, constraints.particle_rest_density)
    IN  [grid |-> ProjectIters(grid, rest, IncompIters),
         constraints |-> [constraints EXCEPT !.particle_rest_density = rest]]

(***************************************************************************)
(* Grid-to-particle transfer.                                              *)
(***************************************************************************)
get_cell_velocity(grid, row, column) ==
    IF row >= Rows \/ column >= Cols \/ row = 0 \/ column = 0 THEN <<0, 0>>
    ELSE << FDiv(FAdd(grid.velocity_u[row][column], grid.velocity_u[row][column + 1]), 2),
            FDiv(FAdd(grid.velocity_v[row][column], grid.velocity_v[row + 1][column]), 2) >>

\* (num / den) * value, where num is a difference of positions.
Weighted(num, den, value) == FScale(value, num, den)

interpolate_velocity(particle_pos, grid) ==
    LET \* r1_u, r1_v, r2_u, r2_v and the two y weights of the code
        Rows2(y_hi, y_lo, y_den, r1_u, r1_v, r2_u, r2_v) ==
            << FAdd(Weighted(y_hi, y_den, r1_u), Weighted(y_lo, y_den, r2_u)),
               FAdd(Weighted(y_hi, y_den, r1_v), Weighted(y_lo, y_den, r2_v)) >>
        \* grid_points 0..3: bottom left, top left, top right, bottom right;
        \* v is the cell velocity and p the cell position of a grid point
        Points(v0, v1, v2, v3, p0, p2, p3, x_hi, x_lo) ==
            Rows2(FSub(p2[2], particle_pos[2]), FSub(particle_pos[2], p0[2]),
                  p2[2] - p0[2],
                  FAdd(Weighted(x_hi, p3[1] - p0[1], v0[1]),
                       Weighted(x_lo, p3[1] - p0[1], v1[1])),
                  FAdd(Weighted(x_hi, p2[1] - p0[1], v0[2]),
                       Weighted(x_lo, p2[1] - p0[1], v1[2])),
                  FAdd(Weighted(x_hi, p2[1] - p0[1], v2[1]),
                       Weighted(x_lo, p2[1] - p0[1], v3[1])),
                  FAdd(Weighted(x_hi, p2[1] - p0[1], v2[2]),
                       Weighted(x_lo, p2[1] - p0[1], v3[2])))
        Positions(v0, v1, v2, v3, p0, p2, p3) ==
            Points(v0, v1, v2, v3, p0, p2, p3,
                   FSub(p2[1], particle_pos[1]), FSub(particle_pos[1], p0[1]))
        \* dimensions.1 bounds the row and dimensions.0 the column, as in the code
        Corners(bottom_left, top_left, top_right, bottom_right) ==
            Positions(get_cell_velocity(grid, bottom_left[1], bottom_left[2]),
                      get_cell_velocity(grid, top_left[1], top_left[2]),
                      get_cell_velocity(grid, top_right[1], top_right[2]),
                      get_cell_velocity(grid, bottom_right[1], bottom_right[2]),
                      get_cell_position_from_coordinates(bottom_left),
                      get_cell_position_from_coordinates(top_right),
                      get_cell_position_from_coordinates(bottom_right))
        Cell(row, col) ==
            Corners(<< FMin(row + 1, Cols), FMax(col - 1, 0) >>,
                    << FMax(row - 1, 0), FMax(col - 1, 0) >>,
                    << FMax(row - 1, 0), FMin(col + 1, Rows) >>,
                    << FMin(row + 1, Cols), FMin(col + 1, Rows) >>)
        Coordinates(cell_coords) == Cell(cell_coords[1], cell_coords[2])
    IN  Coordinates(get_cell_coordinates_from_position(particle_pos))

\* The new velocity apply_grid gives one particle (grid_particle_ratio 0.3).
ApplyGridToParticle(particle, grid, change_grid) ==
    LET Blend(interp_vel, flip_velocity) ==
            [particle EXCEPT !.velocity =
                VAdd(<< FAdd(FScale(interp_vel[1], 3, 10), FScale(flip_velocity[1], 7, 10)),
                        FAdd(FScale(interp_vel[2], 3, 10), FScale(flip_velocity[2], 7, 10)) >>,
                     Gravity)]
    IN  Blend(interpolate_velocity(particle.position, grid),
              VAdd(particle.velocity, interpolate_velocity(particle.position, change_grid)))

\* collect_particles followed by apply_grid for one cell.
apply_grid(particles, grid, change_grid, lookup_index) ==
    LET particle_ids == get_particles_in_lookup(grid, lookup_index)
    IN  [id \in DOMAIN particles |->
            IF Contains(particle_ids, id)
            THEN ApplyGridToParticle(particles[id], grid, change_grid)
            ELSE particles[id]]

RECURSIVE GridToParticlesFrom(_, _, _, _, _)
GridToParticlesFrom(grid, change_grid, particles, row_index, col_index) ==
    IF row_index >= Rows THEN particles
    ELSE IF col_index >= Cols
         THEN GridToParticlesFrom(grid, change_grid, particles, row_index + 1, 0)
    ELSE GridToParticlesFrom(grid, change_grid,
             IF grid.cell_type[row_index][col_index] = "Fluid"
             THEN apply_grid(particles, grid, change_grid,
                             get_lookup_index(grid, <<row_index, col_index>>))
             ELSE particles,
             row_index, col_index + 1)

grid_to_particles(grid, change_grid, particles) ==
    GridToParticlesFrom(grid, change_grid, particles, 0, 0)

(***************************************************************************)
(* The state manager (simulation/sim_state_manager.rs).  A world is the    *)
(* record [grid, constraints, particles, commands, next_entity]: the       *)
(* resources and the particle query a system holds, the Commands queue     *)
(* that Bevy applies when the system has ended, and the next entity id.    *)
(* particles holds the entities the query sees; a spawn or despawn queued  *)
(* in commands does not change it.                                         *)
(***************************************************************************)
NoCommands ==
    [despawn |-> {}, particles |-> <<>>, faucets |-> <<>>, drains |-> <<>>]

\* f32 distance test |a - b| <= radius (false when a coordinate is NaN).
WithinRadius(a, b, radius) ==
    LET Within(distance_squared) ==
            /\ distance_squared # NaN
            /\ distance_squared # PosInf
            /\ distance_squared <= radius * radius
    IN  Within(DistanceSquared(a, b))

\* Spawns one particle: the entity id is known at once, the particle is in the
\* spatial lookup and counted at once, the entity exists when the commands
\* are applied.
add_particle(world, position, velocity) ==
    LET Spawn(id, lookup_index) ==
            [world EXCEPT
                !.grid = add_particle_to_lookup(@, id, lookup_index),
                !.constraints.particle_count = @ + 1,
                !.commands.particles =
                    (id :> [position |-> position, velocity |-> velocity,
                            lookup_index |-> lookup_index]) @@ @,
                !.next_entity = @ + 1]
    IN  Spawn(world.next_entity,
              get_lookup_index(world.grid, get_cell_coordinates_from_position(position)))

\* The tools and faucets of the model fill a disk smaller than the spacing of
\* the fill pattern: the fill is its centre particle.
add_particles_in_radius(world, center_position, velocity) ==
    add_particle(world, center_position, velocity)

\* The entities of the query within the radius, in query order.
select_particles(world, position, radius) ==
    SelectSeq(SetToSeq(DOMAIN world.particles),
              LAMBDA id : WithinRadius(world.particles[id].position, position, radius))

\* Removes the particle from the lookup, queues its despawn and counts it out.
delete_particle(world, particle_id) ==
    IF particle_id \notin DOMAIN world.particles THEN world
    ELSE [world EXCEPT
            !.grid = remove_particle_from_lookup(
                         @, particle_id, world.particles[particle_id].lookup_index),
            !.commands.despawn = @ \cup {particle_id},
            !.constraints.particle_count = IF @ > 0 THEN @ - 1 ELSE 0]

RECURSIVE DeleteEach(_, _, _)
DeleteEach(world, ids, k) ==
    IF k > Len(ids) THEN world
    ELSE DeleteEach(delete_particle(world, ids[k]), ids, k + 1)

delete_all_particles(world) ==
    DeleteEach(world, SetToSeq(DOMAIN world.particles), 1)

RECURSIVE UncountedDeleteEach(_, _, _)
\* delete_particles_in_radius is not handed the constraints: it removes the
\* particles from the lookup and queues their despawn, the counter is as it was.
UncountedDeleteEach(world, ids, k) ==
    IF k > Len(ids) THEN world
    ELSE UncountedDeleteEach(
             [world EXCEPT
                 !.grid = remove_particle_from_lookup(
                              @, ids[k], world.particles[ids[k]].lookup_index),
                 !.commands.despawn = @ \cup {ids[k]}],
             ids, k + 1)

delete_particles_in_radius(world, position, radius) ==
    UncountedDeleteEach(world, select_particles(world, position, radius), 1)

add_faucet(world, position, diameter, velocity) ==
    [world EXCEPT
        !.commands.faucets = (world.next_entity :>
            [position |-> position, diameter |-> diameter, velocity |-> velocity]) @@ @,
        !.next_entity = @ + 1]

add_drain(world, position, radius, pressure) ==
    [world EXCEPT
        !.commands.drains = (world.next_entity :>
            [position |-> position, radius |-> radius, pressure |-> pressure]) @@ @,
        !.next_entity = @ + 1]

delete_drain(world, drain_id) ==
    [world EXCEPT !.commands.despawn = @ \cup {drain_id}]

delete_faucet(world, faucet_id) ==
    [world EXCEPT !.commands.despawn = @ \cup {faucet_id}]

delete_all_drains(world, drains) ==
    [world EXCEPT !.commands.despawn = @ \cup DOMAIN drains]

delete_all_faucets(world, faucets) ==
    [world EXCEPT !.commands.despawn = @ \cup DOMAIN faucets]

(***************************************************************************)
(* Faucets and drains.                                                     *)
(***************************************************************************)
SimFaucet_run(world, faucet) ==
    add_particles_in_radius(
        world, <<faucet.position[1], faucet.position[2] - CellSize>>, faucet.velocity)

\* The velocity the drain adds to a particle within its radius: magnitude
\* pressure^2 / distance, pointing at the drain.
PullVelocity(drain, particle, distance_squared) ==
    LET strength == WorldUnit * WorldUnit * drain.pressure * drain.pressure
        Pull(dx, dy) ==
            << RoundDiv(-(strength * dx), TicksPerSecond * distance_squared),
               RoundDiv(-(strength * dy), TicksPerSecond * distance_squared) >>
    IN  IF distance_squared = 0 THEN <<NegInf, NegInf>>
        ELSE Pull(FSub(particle.position[1], drain.position[1]),
                  FSub(particle.position[2], drain.position[2]))

PullParticle(drain, particle) ==
    LET Pulled(distance_squared) ==
            IF /\ distance_squared # NaN
               /\ distance_squared # PosInf
               /\ distance_squared < drain.radius * drain.radius
            THEN [particle EXCEPT
                     !.velocity = VAdd(@, PullVelocity(drain, particle, distance_squared))]
            ELSE particle
    IN  Pulled(DistanceSquared(particle.position, drain.position))

\* A faulty drain that pulls the particles and deletes none.
DrainPullsOnly(world, drain) ==
    [world EXCEPT !.particles =
        [id \in DOMAIN world.particles |-> PullParticle(drain, world.particles[id])]]

SimDrain_drain(world, drain) ==
    delete_particles_in_radius(
        [world EXCEPT !.particles =
            [id \in DOMAIN world.particles |-> PullParticle(drain, world.particles[id])]],
        drain.position, (3 * CellSize) \div 2)

RECURSIVE RunFaucets(_, _, _, _)
RunFaucets(world, faucets, ids, k) ==
    IF k > Len(ids) THEN world
    ELSE RunFaucets(SimFaucet_run(world, faucets[ids[k]]), faucets, ids, k + 1)

RECURSIVE RunDrains(_, _, _, _)
RunDrains(world, drains, ids, k) ==
    IF k > Len(ids) THEN world
    ELSE RunDrains(SimDrain_drain(world, drains[ids[k]]), drains, ids, k + 1)

activate_components(world, faucets, drains) ==
    RunDrains(RunFaucets(world, faucets, SetToSeq(DOMAIN faucets), 1),
              drains, SetToSeq(DOMAIN drains), 1)

RECURSIVE SweepFrom(_, _, _)
\* The last loop of step_simulation_once.
SweepFrom(world, ids, k) ==
    IF k > Len(ids) THEN world
    ELSE LET position == world.particles[ids[k]].position
         IN  SweepFrom(IF IsNaN(position[1]) \/ IsNaN(position[2])
                       THEN delete_particle(world, ids[k])
                       ELSE world,
                       ids, k + 1)

\* A faulty sweep with the test inverted: it deletes the particles whose
\* position is a number.
SweepNumbers(world) ==
    DeleteEach(world,
               SelectSeq(SetToSeq(DOMAIN world.particles),
                         LAMBDA id : /\ ~IsNaN(world.particles[id].position[1])
                                     /\ ~IsNaN(world.particles[id].position[2])),
               1)

\* A faulty sweep that tests the x component of the position alone.
SweepsNaNInX(world) ==
    DeleteEach(world,
               SelectSeq(SetToSeq(DOMAIN world.particles),
                         LAMBDA id : IsNaN(world.particles[id].position[1])),
               1)

NaNSweep(world) == SweepFrom(world, SetToSeq(DOMAIN world.particles), 1)

(***************************************************************************)
(* Grid mutators and the reset.                                            *)
(***************************************************************************)
\* A faulty bounds test that looks at the row alone.
RowOutOfGridBounds(grid, row, col) == row >= grid.dimensions[1]

\* The two tests of set_grid_cell_type that return Err(OutOfGridBounds).
OutOfGridBounds(grid, row, col) ==
    row >= grid.dimensions[1] \/ col >= grid.dimensions[2]

\* The grid that set_grid_cell_type leaves.
set_grid_cell_type(grid, row, col, cell_type) ==
    IF OutOfGridBounds(grid, row, col) THEN grid
    ELSE [grid EXCEPT !.cell_type[row][col] = cell_type]

\* The Result that set_grid_cell_type returns.
set_grid_cell_type_result(grid, row, col) ==
    IF OutOfGridBounds(grid, row, col) THEN "OutOfGridBounds" ELSE "Ok"

set_grid_dimensions(grid, width, height) ==
    [grid EXCEPT !.dimensions = <<height, width>>]

set_grid_cell_size(grid, cell_size) ==
    [grid EXCEPT !.cell_size = cell_size]

RECURSIVE ForceRows(_, _)
\* The first loop of force_edge_solids; the Results are dropped.
ForceRows(grid, i) ==
    IF i >= grid.dimensions[1] THEN grid
    ELSE ForceRows(
             set_grid_cell_type(set_grid_cell_type(grid, i, 0, "Solid"),
                                i, grid.dimensions[1] - 1, "Solid"),
             i + 1)

RECURSIVE ForceCols(_, _)
\* The second loop of force_edge_solids.
ForceCols(grid, i) ==
    IF i >= grid.dimensions[2] THEN grid
    ELSE ForceCols(
             set_grid_cell_type(set_grid_cell_type(grid, grid.dimensions[1] - 1, i, "Solid"),
                                0, i, "Solid"),
             i + 1)

force_edge_solids(grid) == ForceCols(ForceRows(grid, 0), 0)

RECURSIVE DespawnBucket(_, _, _)
\* The loop of delete_all_particles_in_cell over one bucket.
DespawnBucket(world, bucket, k) ==
    IF k > Len(bucket) THEN world
    ELSE DespawnBucket(
             IF bucket[k] \in DOMAIN world.particles
             THEN [world EXCEPT
                      !.commands.despawn = @ \cup {bucket[k]},
                      !.constraints.particle_count = IF @ > 0 THEN @ - 1 ELSE @]
             ELSE world,
             bucket, k + 1)

delete_all_particles_in_cell(world, lookup_index) ==
    [DespawnBucket(world, world.grid.spatial_lookup[lookup_index + 1], 1)
        EXCEPT !.grid.spatial_lookup[lookup_index + 1] = <<>>]

\* SimGrid::default(): every velocity 0.0, a lookup and a density vector of
\* twice rows * cols entries (50 x 50 cells, 5000 entries).
DefaultGrid ==
    [dimensions     |-> <<Rows, Cols>>,
     cell_size      |-> CellSize,
     cell_type      |-> [row \in RowIdx |-> [col \in ColIdx |-> "Air"]],
     velocity_u     |-> [row \in RowIdx |-> [col \in 0..Cols |-> 0]],
     velocity_v     |-> [row \in 0..Rows |-> [col \in ColIdx |-> 0]],
     spatial_lookup |-> [i \in 1..(2 * CellCount) |-> <<>>],
     density        |-> [i \in 1..(2 * CellCount) |-> 0]]

DefaultConstraints ==
    [is_paused |-> FALSE, particle_count |-> 0, particle_rest_density |-> 0,
     selected_particles |-> <<>>]

reset_simulation_to_default(world, faucets, drains) ==
    LET deleted == delete_all_drains(
                       delete_all_faucets(delete_all_particles(world), faucets), drains)
    IN  [deleted EXCEPT
            !.grid = [dimensions     |-> <<Rows, Cols>>,
                      cell_size      |-> CellSize,
                      cell_type      |-> [row \in RowIdx |-> [col \in ColIdx |-> "Air"]],
                      velocity_u     |-> [row \in RowIdx |-> [col \in 0..Cols |-> F32Min]],
                      velocity_v     |-> [row \in 0..Rows |-> [col \in ColIdx |-> F32Min]],
                      spatial_lookup |-> [i \in 1..CellCount |-> <<>>],
                      density        |-> [i \in 1..CellCount |-> 0]],
            !.constraints.particle_count = 0,
            !.constraints.particle_rest_density = 0]

RECURSIVE AddEach(_, _, _)
AddEach(world, new_particles, k) ==
    IF k > Len(new_particles) THEN world
    ELSE AddEach(add_particle(world, new_particles[k].position, new_particles[k].velocity),
                 new_particles, k + 1)

\* A new simulation is a group of particles at rest.
construct_new_simulation(world, scene) == AddEach(world, scene, 1)

(***************************************************************************)
(* Tool events.  The sliders of the UI are fixed at these values.          *)
(***************************************************************************)
GrabRadius == 200
AddRemoveFluidRadius == 40
DrainRadius == 400
DrainPressure == 10
FaucetDiameter == 40
FaucetVelocityX == 217
ThrowStrength == 50

Tools == {"Grab", "AddFluid", "RemoveFluid", "AddWall", "RemoveWall",
          "AddDrain", "RemoveDrain", "AddFaucet", "RemoveFaucet"}

Clamp(x, lo, hi) == IF IsNaN(x) THEN NaN ELSE IF x < lo THEN lo ELSE IF x > hi THEN hi ELSE x

\* Grab, mouse button just pressed: the particles under the cursor are
\* stored with their offsets from the cursor.
GrabSelect(world, pos) ==
    LET Store(selected) ==
            [world EXCEPT !.constraints.selected_particles =
                [i \in 1..Len(selected) |->
                    [id |-> selected[i],
                     offset |-> VSub(pos, world.particles[selected[i]].position)]]]
    IN  Store(select_particles(world, pos, GrabRadius))

RECURSIVE GrabMove(_, _, _)
\* Grab, mouse button held: every selected particle follows the cursor.
GrabMove(world, pos, i) ==
    IF i > Len(world.constraints.selected_particles) THEN world
    ELSE LET selected == world.constraints.selected_particles[i]
             Moved(particle, new_position) ==
                 [particle EXCEPT
                     !.velocity = << FScale(FSub(new_position[1], particle.position[1]),
                                            ThrowStrength, TicksPerSecond),
                                     FScale(FSub(new_position[2], particle.position[2]),
                                            ThrowStrength, TicksPerSecond) >>,
                     !.position = << Clamp(new_position[1], 0, GridWidth),
                                     Clamp(new_position[2], 0, GridHeight) >>]
         IN  IF selected.id \notin DOMAIN world.particles
             THEN GrabMove(world, pos, i + 1)
             ELSE GrabMove([world EXCEPT !.particles[selected.id] =
                               Moved(@, VSub(pos, selected.offset))],
                           pos, i + 1)

RECURSIVE AddWallCells(_, _, _)
AddWallCells(world, grid_cells, i) ==
    IF i > Len(grid_cells) THEN world
    ELSE AddWallCells(
             delete_all_particles_in_cell(
                 [world EXCEPT !.grid = set_grid_cell_type(
                     @, grid_cells[i][1], grid_cells[i][2], "Solid")],
                 get_lookup_index(world.grid, grid_cells[i])),
             grid_cells, i + 1)

RECURSIVE RemoveWallCells(_, _, _)
RemoveWallCells(grid, grid_cells, i) ==
    IF i > Len(grid_cells) THEN grid
    ELSE RemoveWallCells(
             set_grid_cell_type(grid, grid_cells[i][1], grid_cells[i][2], "Air"),
             grid_cells, i + 1)

\* The first component of the query within three cells of the cursor.
ClosestComponent(components, pos) ==
    SelectSeq(SetToSeq(DOMAIN components),
              LAMBDA id : WithinRadius(pos, components[id].position, 3 * CellSize))

\* One iteration of the tool loop of handle_events: the world after it, and
\* whether the iteration leaves the loop (break).
UseTool(world, faucets, drains, tool_use) ==
    LET pos == tool_use.pos
        inside == is_position_within_grid(pos)
        stay(w) == [world |-> w, break |-> FALSE]
        leave(w) == [world |-> w, break |-> TRUE]
    IN  CASE tool_use.tool = "Grab" ->
                IF ~tool_use.mouse_held THEN leave(GrabSelect(world, pos))
                ELSE stay(GrabMove(world, pos, 1))
          [] tool_use.tool = "AddFluid" ->
                stay(add_particles_in_radius(world, pos, <<0, 0>>))
          [] tool_use.tool = "RemoveFluid" ->
                IF ~inside THEN stay(world)
                ELSE stay(delete_particles_in_radius(world, pos, AddRemoveFluidRadius))
          [] tool_use.tool = "AddWall" ->
                IF ~inside THEN stay(world)
                ELSE stay(AddWallCells(world, select_grid_cells(pos, 0), 1))
          [] tool_use.tool = "RemoveWall" ->
                stay([world EXCEPT !.grid =
                         RemoveWallCells(@, select_grid_cells(pos, 0), 1)])
          [] tool_use.tool = "AddDrain" ->
                IF ~inside THEN stay(world)
                ELSE IF tool_use.mouse_held THEN leave(world)
                ELSE stay(add_drain(world, pos, DrainRadius, DrainPressure))
          [] tool_use.tool = "RemoveDrain" ->
                LET Remove(near) ==
                        IF near = <<>> THEN stay(world)
                        ELSE stay(delete_drain(world, near[1]))
                IN  Remove(ClosestComponent(drains, pos))
          [] tool_use.tool = "AddFaucet" ->
                IF ~inside THEN stay(world)
                ELSE IF tool_use.mouse_held THEN leave(world)
                ELSE stay(add_faucet(world, pos, FaucetDiameter, <<FaucetVelocityX, 0>>))
          [] tool_use.tool = "RemoveFaucet" ->
                LET Remove(near) ==
                        IF near = <<>> THEN stay(world)
                        ELSE stay(delete_faucet(world, near[1]))
                IN  Remove(ClosestComponent(faucets, pos))

\* The entities a tool event spawns.
SpawnsOfTool(tool_use) ==
    IF tool_use.tool \in {"AddFluid", "AddDrain", "AddFaucet"} THEN 1 ELSE 0

(***************************************************************************)
(* The state of the program.                                               *)
(***************************************************************************)
VARIABLES
    grid,             \* Res<SimGrid>
    constraints,      \* Res<SimConstraints>
    particles,        \* Query<(Entity, &mut SimParticle)>: entity |-> particle
    faucets,          \* Query<(Entity, &mut SimFaucet)>
    drains,           \* Query<(Entity, &mut SimDrain)>
    commands,         \* the Commands queued in the current frame
    next_entity,      \* the id of the next entity spawned
    ev_reset,         \* unread ResetEvents (the age of each)
    ev_clear,         \* unread ClearEvents (the age of each)
    ev_pause,         \* unread PlayPauseStepEvents
    ev_tool,          \* unread UseToolEvents
    pc,               \* where the update system is
    old_grid,         \* local of step_simulation_once
    change_grid,      \* local of step_simulation_once
    frame,            \* frames completed
    events_sent,      \* events sent by the host so far
    phase_log,        \* history: the phases the current tick has run
    ticks_in_frame,   \* history: ticks completed in the current frame
    frame_start,      \* history: the state update() found
    handled,          \* history: the events handled in the current frame
    tick_start,       \* history: what the current tick found
    near_drain,       \* history: the drain phase found a particle to delete
    call              \* history: the SimGrid method a client called last

vars == << grid, constraints, particles, faucets, drains, commands, next_entity,
           ev_reset, ev_clear, ev_pause, ev_tool, pc, old_grid, change_grid, frame,
           events_sent, phase_log, ticks_in_frame, frame_start, handled, tick_start,
           near_drain, call >>

sim_vars == << grid, constraints, particles, commands, next_entity >>
queue_vars == << ev_reset, ev_clear, ev_pause, ev_tool >>
frame_vars == << frame, events_sent, ticks_in_frame, frame_start, handled >>

CurrentWorld ==
    [grid |-> grid, constraints |-> constraints, particles |-> particles,
     commands |-> commands, next_entity |-> next_entity]

\* The entities that are particles once the queued commands are applied.
LiveIn(world) ==
    (DOMAIN world.particles \cup DOMAIN world.commands.particles) \ world.commands.despawn

ParticleIn(world, id) ==
    IF id \in DOMAIN world.particles THEN world.particles[id]
    ELSE world.commands.particles[id]

Live == LiveIn(CurrentWorld)
ParticleOf(id) == ParticleIn(CurrentWorld, id)

CellOf(position) == get_cell_coordinates_from_position(position)

InSolid(position) ==
    LET Solid(cell) == grid.cell_type[cell[1]][cell[2]] = "Solid"
    IN  Solid(CellOf(position))

\* The phases of step_simulation_once, in the order of its statements.
PhaseOrder ==
    << "update_particles", "push_particles_apart", "handle_particle_grid_collisions",
       "label_cells", "particles_to_grid", "extrapolate_values_1", "old_grid",
       "make_grid_velocities_incompressible", "create_change_grid", "grid_to_particles",
       "extrapolate_values_2", "activate_components", "nan_sweep" >>

TickPhases == {PhaseOrder[i] : i \in 1..Len(PhaseOrder)}

\* A faulty step_simulation_once that leaves out the boundary clamp.
SkipsBoundaryClamp(phase) ==
    IF phase = "push_particles_apart" THEN "label_cells"
    ELSE IF phase = "nan_sweep" THEN "handle_events"
    ELSE PhaseOrder[FirstIndex(PhaseOrder, phase) + 1]

\* The statement of step_simulation_once that follows the statement `phase`;
\* after the last one the function returns into handle_events.
NextPhase(phase) ==
    CASE phase = "update_particles" -> "push_particles_apart"
      [] phase = "push_particles_apart" -> "handle_particle_grid_collisions"
      [] phase = "handle_particle_grid_collisions" -> "label_cells"
      [] phase = "label_cells" -> "particles_to_grid"
      [] phase = "particles_to_grid" -> "extrapolate_values_1"
      [] phase = "extrapolate_values_1" -> "old_grid"
      [] phase = "old_grid" -> "make_grid_velocities_incompressible"
      [] phase = "make_grid_velocities_incompressible" -> "create_change_grid"
      [] phase = "create_change_grid" -> "grid_to_particles"
      [] phase = "grid_to_particles" -> "extrapolate_values_2"
      [] phase = "extrapolate_values_2" -> "activate_components"
      [] phase = "activate_components" -> "nan_sweep"
      [] phase = "nan_sweep" -> "handle_events"

\* What the host may send.
ToolUse(tool, pos, mouse_held) == [tool |-> tool, pos |-> pos, mouse_held |-> mouse_held]

ToolUses ==
    { ToolUse("Grab", <<190, 500>>, FALSE),      ToolUse("Grab", <<400, 300>>, TRUE),
      ToolUse("AddFluid", <<400, 300>>, FALSE),  ToolUse("RemoveFluid", <<190, 500>>, FALSE),
      ToolUse("AddWall", <<400, 300>>, FALSE),   ToolUse("RemoveWall", <<400, 300>>, TRUE),
      ToolUse("AddDrain", <<190, 500>>, FALSE),  ToolUse("AddDrain", <<190, 500>>, TRUE),
      ToolUse("RemoveDrain", <<400, 300>>, FALSE),
      ToolUse("AddFaucet", <<190, 500>>, FALSE), ToolUse("RemoveFaucet", <<400, 300>>, FALSE) }

\* The particle groups construct_new_simulation may build.
Scenes ==
    { <<>>,
      << [position |-> <<150, 300>>, velocity |-> <<0, 0>>],
         [position |-> <<130, 300>>, velocity |-> <<0, 0>>] >> }

NoTickStart == [live |-> 0, particle_count |-> 0, clean |-> TRUE, drains |-> 0, faucets |-> 0]

TickStart ==
    [live |-> Cardinality(Live),
     particle_count |-> constraints.particle_count,
     clean |-> \A id \in DOMAIN particles \ commands.despawn :
                   ~InSolid(particles[id].position),
     drains |-> Cardinality(DOMAIN drains),
     faucets |-> Cardinality(DOMAIN faucets)]

FrameStart ==
    [is_paused |-> constraints.is_paused, grid |-> grid, particles |-> particles]

NoHandled == [reset |-> 0, clear |-> 0, pause |-> 0, step |-> 0, tool |-> 0]

NoCall ==
    [op |-> "none", args |-> <<>>, before |-> <<>>, result |-> "Ok", value |-> <<>>,
     count |-> 0]

\* The driver before its first frame: no entity, and the ResetEvent that
\* setup() has sent.
DriverInit ==
    /\ constraints = DefaultConstraints
    /\ particles = <<>>
    /\ faucets = <<>>
    /\ drains = <<>>
    /\ commands = NoCommands
    /\ next_entity = 1
    /\ ev_reset = << [age |-> 0] >>
    /\ ev_clear = <<>>
    /\ ev_pause = <<>>
    /\ ev_tool = <<>>
    /\ pc = "idle"
    /\ old_grid = DefaultGrid
    /\ change_grid = DefaultGrid
    /\ frame = 0
    /\ events_sent = 0
    /\ phase_log = <<>>
    /\ ticks_in_frame = 0
    /\ frame_start = [is_paused |-> FALSE, grid |-> DefaultGrid, particles |-> <<>>]
    /\ handled = NoHandled
    /\ tick_start = NoTickStart
    /\ near_drain = FALSE

\* The state after construction: the default resources, no entity, and the
\* ResetEvent that setup() has sent.
Init ==
    /\ grid = DefaultGrid
    /\ call = NoCall
    /\ DriverInit

(***************************************************************************)
(* update(): the tick.  One action per statement of step_simulation_once.  *)
(***************************************************************************)
\* The statement `phase` runs and control moves to the statement after it.
Runs(phase) ==
    /\ pc = phase
    /\ pc' = NextPhase(phase)
    /\ phase_log' = Append(phase_log, phase)

\* step_simulation_once is entered.
EntersTick ==
    /\ pc' = "update_particles"
    /\ phase_log' = <<>>
    /\ tick_start' = TickStart
    /\ near_drain' = FALSE

SetWorld(world) ==
    /\ grid' = world.grid
    /\ constraints' = world.constraints
    /\ particles' = world.particles
    /\ commands' = world.commands
    /\ next_entity' = world.next_entity

\* A faulty update() that steps the simulation whether it is paused or not.
AlwaysSteps(sim_constraints) == TRUE

\* A faulty update() with the test inverted.
StepsWhenPaused(sim_constraints) == sim_constraints.is_paused

\* The test of update(): the simulation is stepped unless it is paused.
ShouldStep(sim_constraints) == ~sim_constraints.is_paused

\* The update system starts: it steps the simulation unless it is paused.
BeginFrame ==
    /\ pc = "idle"
    /\ frame < MaxFrames
    /\ frame_start' = FrameStart
    /\ ticks_in_frame' = 0
    /\ handled' = NoHandled
    /\ IF ShouldStep(constraints)
       THEN EntersTick
       ELSE pc' = "handle_events" /\ UNCHANGED <<phase_log, tick_start, near_drain>>
    /\ UNCHANGED <<call, sim_vars, faucets, drains, queue_vars, old_grid, change_grid,
                   frame, events_sent>>

UpdateParticles ==
    /\ Runs("update_particles")
    /\ LET Set(updated) == grid' = updated.grid /\ particles' = updated.particles
       IN  Set(update_particles(grid, particles))
    /\ UNCHANGED <<call, constraints, commands, next_entity, faucets, drains, queue_vars,
                   old_grid, change_grid, frame_vars, tick_start, near_drain>>

\* A panic ends the program.
Panics ==
    /\ pc' = "panic"
    /\ UNCHANGED <<phase_log, particles>>

PushParticlesApart ==
    /\ pc = "push_particles_apart"
    /\ IF push_particles_apart_panics(grid)
       THEN Panics
       ELSE Runs("push_particles_apart")
            /\ particles' = push_particles_apart(grid, particles)
    /\ UNCHANGED <<call, grid, constraints, commands, next_entity, faucets, drains, queue_vars,
                   old_grid, change_grid, frame_vars, tick_start, near_drain>>

HandleParticleGridCollisions ==
    /\ Runs("handle_particle_grid_collisions")
    /\ particles' = handle_particle_grid_collisions(particles)
    /\ UNCHANGED <<call, grid, constraints, commands, next_entity, faucets, drains, queue_vars,
                   old_grid, change_grid, frame_vars, tick_start, near_drain>>

LabelCells ==
    /\ Runs("label_cells")
    /\ grid' = label_cells(grid)
    /\ UNCHANGED <<call, particles, constraints, commands, next_entity, faucets, drains,
                   queue_vars, old_grid, change_grid, frame_vars, tick_start, near_drain>>

ParticlesToGrid ==
    /\ Runs("particles_to_grid")
    /\ grid' = particles_to_grid(grid, particles)
    /\ UNCHANGED <<call, particles, constraints, commands, next_entity, faucets, drains,
                   queue_vars, old_grid, change_grid, frame_vars, tick_start, near_drain>>

ExtrapolateValues1 ==
    /\ Runs("extrapolate_values_1")
    /\ grid' = extrapolate_values(grid, 1)
    /\ UNCHANGED <<call, particles, constraints, commands, next_entity, faucets, drains,
                   queue_vars, old_grid, change_grid, frame_vars, tick_start, near_drain>>

StoreOldGrid ==
    /\ Runs("old_grid")
    /\ old_grid' = grid
    /\ UNCHANGED <<call, sim_vars, faucets, drains, queue_vars, change_grid, frame_vars,
                   tick_start, near_drain>>

MakeGridVelocitiesIncompressible ==
    /\ Runs("make_grid_velocities_incompressible")
    /\ LET Set(projected) ==
               grid' = projected.grid /\ constraints' = projected.constraints
       IN  Set(make_grid_velocities_incompressible(grid, constraints))
    /\ UNCHANGED <<call, particles, commands, next_entity, faucets, drains, queue_vars,
                   old_grid, change_grid, frame_vars, tick_start, near_drain>>

CreateChangeGrid ==
    /\ Runs("create_change_grid")
    /\ change_grid' = create_change_grid(old_grid, grid)
    /\ UNCHANGED <<call, sim_vars, faucets, drains, queue_vars, old_grid, frame_vars,
                   tick_start, near_drain>>

GridToParticles ==
    /\ Runs("grid_to_particles")
    /\ particles' = grid_to_particles(grid, change_grid, particles)
    /\ UNCHANGED <<call, grid, constraints, commands, next_entity, faucets, drains, queue_vars,
                   old_grid, change_grid, frame_vars, tick_start, near_drain>>

ExtrapolateValues2 ==
    /\ Runs("extrapolate_values_2")
    /\ grid' = extrapolate_values(grid, 1)
    /\ UNCHANGED <<call, particles, constraints, commands, next_entity, faucets, drains,
                   queue_vars, old_grid, change_grid, frame_vars, tick_start, near_drain>>

\* A live particle lies within 1.5 cells of a drain of the query.
ParticleNearDrain ==
    \E drain_id \in DOMAIN drains : \E id \in DOMAIN particles \ commands.despawn :
        WithinRadius(particles[id].position, drains[drain_id].position,
                     (3 * CellSize) \div 2)

ActivateComponents ==
    /\ Runs("activate_components")
    /\ next_entity + Cardinality(DOMAIN faucets) - 1 <= MaxEntities
    /\ near_drain' = ParticleNearDrain
    /\ SetWorld(activate_components(CurrentWorld, faucets, drains))
    /\ UNCHANGED <<call, faucets, drains, queue_vars, old_grid, change_grid, frame_vars,
                   tick_start>>

\* The NaN sweep, and step_simulation_once returns into handle_events.
SweepNaNParticles ==
    /\ Runs("nan_sweep")
    /\ SetWorld(NaNSweep(CurrentWorld))
    /\ old_grid' = DefaultGrid
    /\ change_grid' = DefaultGrid
    /\ ticks_in_frame' = ticks_in_frame + 1
    /\ UNCHANGED <<call, faucets, drains, queue_vars, frame, events_sent, frame_start,
                   handled, tick_start, near_drain>>

(***************************************************************************)
(* update(): handle_events.  An EventReader hands over the unread events   *)
(* in the order they were sent; a return or break leaves the rest unread.  *)
(***************************************************************************)
HandleReset ==
    /\ pc = "handle_events"
    /\ ev_reset # <<>>
    /\ \E scene \in Scenes :
        /\ next_entity + Len(scene) - 1 <= MaxEntities
        /\ SetWorld(construct_new_simulation(
               reset_simulation_to_default(CurrentWorld, faucets, drains), scene))
    /\ ev_reset' = Tail(ev_reset)
    /\ handled' = [handled EXCEPT !.reset = @ + 1]
    /\ pc' = "frame_end"
    /\ UNCHANGED <<call, faucets, drains, ev_clear, ev_pause, ev_tool, old_grid, change_grid,
                   frame, events_sent, phase_log, ticks_in_frame, frame_start,
                   tick_start, near_drain>>

HandleClear ==
    /\ pc = "handle_events"
    /\ ev_reset = <<>>
    /\ ev_clear # <<>>
    /\ SetWorld(delete_all_faucets(
                    delete_all_drains(delete_all_particles(CurrentWorld), drains), faucets))
    /\ ev_clear' = Tail(ev_clear)
    /\ handled' = [handled EXCEPT !.clear = @ + 1]
    /\ pc' = "frame_end"
    /\ UNCHANGED <<call, faucets, drains, ev_reset, ev_pause, ev_tool, old_grid, change_grid,
                   frame, events_sent, phase_log, ticks_in_frame, frame_start,
                   tick_start, near_drain>>

\* A play/pause event that is not a step event.
HandlePlayPause ==
    /\ pc = "handle_events"
    /\ ev_reset = <<>> /\ ev_clear = <<>>
    /\ ev_pause # <<>>
    /\ ~Head(ev_pause).is_step_event
    /\ constraints' = [constraints EXCEPT !.is_paused = ~@]
    /\ ev_pause' = Tail(ev_pause)
    /\ handled' = [handled EXCEPT !.pause = @ + 1]
    /\ UNCHANGED <<call, grid, particles, commands, next_entity, faucets, drains, ev_reset,
                   ev_clear, ev_tool, pc, old_grid, change_grid, frame, events_sent,
                   phase_log, ticks_in_frame, frame_start, tick_start, near_drain>>

\* A faulty step event that toggles the pause flag.
ToggleForStep(sim_constraints) == [sim_constraints EXCEPT !.is_paused = ~@]

\* A faulty step event that steps the simulation and leaves it running.
KeepsRunningForStep(sim_constraints) == sim_constraints

\* A step event finds the simulation running: it pauses it.
PauseForStep(sim_constraints) == [sim_constraints EXCEPT !.is_paused = TRUE]

\* A step event: the simulation is paused and stepped once.
HandleStep ==
    /\ pc = "handle_events"
    /\ ev_reset = <<>> /\ ev_clear = <<>>
    /\ ev_pause # <<>>
    /\ Head(ev_pause).is_step_event
    /\ constraints' = PauseForStep(constraints)
    /\ ev_pause' = Tail(ev_pause)
    /\ handled' = [handled EXCEPT !.step = @ + 1]
    /\ EntersTick
    /\ UNCHANGED <<call, grid, particles, commands, next_entity, faucets, drains, ev_reset,
                   ev_clear, ev_tool, old_grid, change_grid, frame, events_sent,
                   ticks_in_frame, frame_start>>

\* A faulty handle_events with the loop over the tool events before the loop
\* over the play/pause/step events.
ReadsToolEventsFirst == ev_reset = <<>> /\ ev_clear = <<>>

\* The loop over the tool events is the last of handle_events: it is reached
\* with no reset or clear event, when every play/pause/step event is read.
ReadsToolEvents == ev_reset = <<>> /\ ev_clear = <<>> /\ ev_pause = <<>>

HandleToolUse ==
    /\ pc = "handle_events"
    /\ ReadsToolEvents
    /\ ev_tool # <<>>
    /\ next_entity + SpawnsOfTool(Head(ev_tool)) - 1 <= MaxEntities
    /\ LET Set(used) ==
               /\ SetWorld(used.world)
               /\ pc' = IF used.break THEN "frame_end" ELSE "handle_events"
       IN  Set(UseTool(CurrentWorld, faucets, drains, Head(ev_tool)))
    /\ ev_tool' = Tail(ev_tool)
    /\ handled' = [handled EXCEPT !.tool = @ + 1]
    /\ UNCHANGED <<call, faucets, drains, ev_reset, ev_clear, ev_pause, old_grid, change_grid,
                   frame, events_sent, phase_log, ticks_in_frame, frame_start,
                   tick_start, near_drain>>

Restrict(f, S) == [x \in S |-> f[x]]

\* Events::update: an event not read in the frame it was sent in or in the
\* frame after is dropped.
Aged(events) ==
    LET kept == SelectSeq(events, LAMBDA e : e.age = 0)
    IN  [i \in 1..Len(kept) |-> [kept[i] EXCEPT !.age = 1]]

\* The update system has ended: Bevy applies the queued commands.
EndFrame ==
    /\ \/ pc = "frame_end"
       \/ /\ pc = "handle_events"
          /\ ev_reset = <<>> /\ ev_clear = <<>> /\ ev_pause = <<>> /\ ev_tool = <<>>
    /\ pc' = "idle"
    /\ particles' = Restrict(commands.particles @@ particles,
                             (DOMAIN particles \cup DOMAIN commands.particles)
                                 \ commands.despawn)
    /\ faucets' = Restrict(commands.faucets @@ faucets,
                           (DOMAIN faucets \cup DOMAIN commands.faucets) \ commands.despawn)
    /\ drains' = Restrict(commands.drains @@ drains,
                          (DOMAIN drains \cup DOMAIN commands.drains) \ commands.despawn)
    /\ commands' = NoCommands
    /\ ev_reset' = Aged(ev_reset)
    /\ ev_clear' = Aged(ev_clear)
    /\ ev_pause' = Aged(ev_pause)
    /\ ev_tool' = Aged(ev_tool)
    /\ frame' = frame + 1
    /\ UNCHANGED <<call, grid, constraints, next_entity, old_grid, change_grid, events_sent,
                   phase_log, ticks_in_frame, frame_start, handled, tick_start,
                   near_drain>>

(***************************************************************************)
(* The host: between two frames it may send events.                        *)
(***************************************************************************)
MaySend ==
    /\ pc = "idle"
    /\ frame >= 1
    /\ frame < MaxFrames
    /\ events_sent < MaxEvents
    /\ events_sent' = events_sent + 1
    /\ UNCHANGED <<call, sim_vars, faucets, drains, pc, old_grid, change_grid, frame,
                   phase_log, ticks_in_frame, frame_start, handled, tick_start,
                   near_drain>>

SendReset ==
    /\ MaySend
    /\ ev_reset' = Append(ev_reset, [age |-> 0])
    /\ UNCHANGED <<ev_clear, ev_pause, ev_tool>>

SendClear ==
    /\ MaySend
    /\ ev_clear' = Append(ev_clear, [age |-> 0])
    /\ UNCHANGED <<ev_reset, ev_pause, ev_tool>>

SendPlayPauseStep ==
    /\ MaySend
    /\ \E is_step_event \in BOOLEAN :
        ev_pause' = Append(ev_pause, [is_step_event |-> is_step_event, age |-> 0])
    /\ UNCHANGED <<ev_reset, ev_clear, ev_tool>>

SendUseTool ==
    /\ MaySend
    /\ \E tool_use \in ToolUses :
        ev_tool' = Append(ev_tool, [tool |-> tool_use.tool, pos |-> tool_use.pos,
                                    mouse_held |-> tool_use.mouse_held, age |-> 0])
    /\ UNCHANGED <<ev_reset, ev_clear, ev_pause>>

Next ==
    \/ BeginFrame
    \/ UpdateParticles
    \/ PushParticlesApart
    \/ HandleParticleGridCollisions
    \/ LabelCells
    \/ ParticlesToGrid
    \/ ExtrapolateValues1
    \/ StoreOldGrid
    \/ MakeGridVelocitiesIncompressible
    \/ CreateChangeGrid
    \/ GridToParticles
    \/ ExtrapolateValues2
    \/ ActivateComponents
    \/ SweepNaNParticles
    \/ HandleReset
    \/ HandleClear
    \/ HandlePlayPause
    \/ HandleStep
    \/ HandleToolUse
    \/ EndFrame
    \/ SendReset
    \/ SendClear
    \/ SendPlayPauseStep
    \/ SendUseTool

Spec == Init /\ [][Next]_vars

(***************************************************************************)
(* The methods of SimGrid, called by a client on a grid of its own.  The   *)
(* driver stands still; `call` records the method, its arguments, the grid *)
(* it found and what it returned.                                          *)
(***************************************************************************)
driver_vars == << constraints, particles, faucets, drains, commands, next_entity,
                  ev_reset, ev_clear, ev_pause, ev_tool, pc, old_grid, change_grid,
                  frame, events_sent, phase_log, ticks_in_frame, frame_start, handled,
                  tick_start, near_drain >>

CellTypes == {"Air", "Fluid", "Solid"}

\* A grid of rows x cols cells of Air, at rest.  In a tagged grid the bucket
\* of lookup index i holds the one entity i + 1.
NewGrid(rows, cols, tagged) ==
    [dimensions     |-> <<rows, cols>>,
     cell_size      |-> CellSize,
     cell_type      |-> [row \in 0..(rows - 1) |-> [col \in 0..(cols - 1) |-> "Air"]],
     velocity_u     |-> [row \in 0..(rows - 1) |-> [col \in 0..cols |-> 0]],
     velocity_v     |-> [row \in 0..rows |-> [col \in 0..(cols - 1) |-> 0]],
     spatial_lookup |-> [i \in 1..(rows * cols) |-> IF tagged THEN <<i>> ELSE <<>>],
     density        |-> [i \in 1..(rows * cols) |-> 0]]

Grids ==
    {NewGrid(rows, cols, tagged) : rows \in 1..Rows, cols \in 1..Cols, tagged \in BOOLEAN}

GridInit ==
    /\ grid \in Grids
    /\ call = NoCall
    /\ DriverInit

\* The method `op` is called with `args`: it leaves the grid `after` and
\* returns `value`, or Ok or an error (`result`).  A panic ends the client.
Returned(op, args, after, result, value) ==
    /\ call.count < MaxCalls
    /\ call.result # "panic"
    /\ grid' = after
    /\ call' = [op |-> op, args |-> args, before |-> grid, result |-> result,
                value |-> value, count |-> call.count + 1]
    /\ UNCHANGED driver_vars

Called(op, args, after, result) == Returned(op, args, after, result, <<>>)

Panicked(op, args) == Called(op, args, grid, "panic")

\* vec[row][col] is inside the vectors.
HasCell(vec, row, col) == row \in DOMAIN vec /\ col \in DOMAIN vec[row]

SetGridCellType ==
    \E row \in 0..Rows, col \in 0..Cols, cell_type \in CellTypes :
        LET args == [row |-> row, col |-> col, cell_type |-> cell_type]
        IN  IF ~OutOfGridBounds(grid, row, col) /\ ~HasCell(grid.cell_type, row, col)
            THEN Called("set_grid_cell_type", args, grid, "panic")
            ELSE Called("set_grid_cell_type", args,
                        set_grid_cell_type(grid, row, col, cell_type),
                        set_grid_cell_type_result(grid, row, col))

\* The cells that force_edge_solids hands to set_grid_cell_type.
ForceTargets(sim_grid) ==
    LET rows == sim_grid.dimensions[1]
        cols == sim_grid.dimensions[2]
    IN  {<<i, 0>> : i \in 0..(rows - 1)} \cup {<<i, rows - 1>> : i \in 0..(rows - 1)}
        \cup {<<rows - 1, i>> : i \in 0..(cols - 1)} \cup {<<0, i>> : i \in 0..(cols - 1)}

ForceEdgeSolids ==
    IF \E cell \in ForceTargets(grid) :
           ~OutOfGridBounds(grid, cell[1], cell[2])
           /\ ~HasCell(grid.cell_type, cell[1], cell[2])
    THEN Called("force_edge_solids", <<>>, grid, "panic")
    ELSE Called("force_edge_solids", <<>>, force_edge_solids(grid), "Ok")

SetGridDimensions ==
    \E width \in 1..Cols, height \in 1..Rows :
        Called("set_grid_dimensions", [width |-> width, height |-> height],
               set_grid_dimensions(grid, width, height), "Ok")

SetGridCellSize ==
    \E cell_size \in {CellSize, 2 * CellSize} :
        Called("set_grid_cell_size", [cell_size |-> cell_size],
               set_grid_cell_size(grid, cell_size), "Ok")

\* label_cells reads cell_type[row][col] for every cell of the dimensions,
\* and the bucket of every cell that is not Solid.
LabelCellsPanics ==
    \E row \in 0..(grid.dimensions[1] - 1), col \in 0..(grid.dimensions[2] - 1) :
        \/ ~HasCell(grid.cell_type, row, col)
        \/ /\ grid.cell_type[row][col] # "Solid"
           /\ get_lookup_index(grid, <<row, col>>) >= Len(grid.spatial_lookup)

CallLabelCells ==
    IF LabelCellsPanics
    THEN Called("label_cells", <<>>, grid, "panic")
    ELSE Called("label_cells", <<>>, label_cells(grid), "Ok")

GetNearbyParticles ==
    \E lookup_index \in 0..(grid.dimensions[1] * grid.dimensions[2] - 1) :
        LET args == [lookup_index |-> lookup_index]
        IN  IF get_nearby_particles_panics(grid)
            THEN Panicked("get_nearby_particles", args)
            ELSE Returned("get_nearby_particles", args, grid, "Ok",
                          get_nearby_particles(grid, lookup_index))

\* spatial_lookup[lookup_index] is past the end of the vector: the guard of
\* add_particle_to_lookup and remove_particle_from_lookup lets the index
\* through and the indexing panics.
LookupIndexPanics(lookup_index) ==
    /\ ~(lookup_index > Len(grid.spatial_lookup))
    /\ lookup_index >= Len(grid.spatial_lookup)

AddParticleToLookup ==
    \E particle_id \in 1..2, lookup_index \in 0..(Len(grid.spatial_lookup) + 1) :
        LET args == [particle_id |-> particle_id, lookup_index |-> lookup_index]
        IN  IF LookupIndexPanics(lookup_index)
            THEN Panicked("add_particle_to_lookup", args)
            ELSE Called("add_particle_to_lookup", args,
                        add_particle_to_lookup(grid, particle_id, lookup_index), "Ok")

RemoveParticleFromLookup ==
    \E particle_id \in 1..2, lookup_index \in 0..(Len(grid.spatial_lookup) + 1) :
        LET args == [particle_id |-> particle_id, lookup_index |-> lookup_index]
        IN  IF LookupIndexPanics(lookup_index)
            THEN Panicked("remove_particle_from_lookup", args)
            ELSE Called("remove_particle_from_lookup", args,
                        remove_particle_from_lookup(grid, particle_id, lookup_index), "Ok")

\* Positions inside the grid: near a corner, in the centre, near the
\* opposite corner.
SelectPositions == {<<10, 10>>, <<300, 300>>, <<590, 590>>}

\* The geometry of the model is that of a grid of Rows x Cols cells of
\* CellSize: the selection is made on such a grid.
SelectGridCells ==
    /\ grid.dimensions = <<Rows, Cols>>
    /\ grid.cell_size = CellSize
    /\ \E position \in SelectPositions, radius \in {0, CellSize} :
           Returned("select_grid_cells", [position |-> position, radius |-> radius],
                    grid, "Ok", select_grid_cells(position, radius))

\* Where the particle is and where the step would take it: inside the west
\* cell of the middle row, at its east face, inside the middle cell, inside
\* the cell north of it, and west of the grid.
IntegratePositions == {<<100, 300>>, <<190, 290>>, <<300, 300>>, <<300, 500>>, <<-20, 300>>}

\* update_particles integrates one particle of the client's on the grid, a
\* grid of Rows x Cols cells of CellSize with a cell type for each.
IntegrateParticle ==
    /\ grid.dimensions = <<Rows, Cols>>
    /\ grid.cell_size = CellSize
    /\ DOMAIN grid.cell_type = RowIdx
    /\ \A row \in RowIdx : DOMAIN grid.cell_type[row] = ColIdx
    /\ \E position \in IntegratePositions, target_position \in IntegratePositions :
           LET particle == [position |-> position, velocity |-> <<0, 0>>,
                            lookup_index |-> 0]
               target_velocity == VSub(target_position, position)
           IN  Returned("integrate_particle_with_collisions",
                        [particle |-> particle, target_position |-> target_position,
                         target_velocity |-> target_velocity],
                        grid, "Ok",
                        integrate_particle_with_collisions(
                            grid, particle, target_position, target_velocity))

GridNext ==
    \/ SetGridCellType
    \/ SelectGridCells
    \/ AddParticleToLookup
    \/ RemoveParticleFromLookup
    \/ GetNearbyParticles
    \/ CallLabelCells
    \/ ForceEdgeSolids
    \/ SetGridDimensions
    \/ SetGridCellSize
    \/ IntegrateParticle

GridSpec == GridInit /\ [][GridNext]_vars

(***************************************************************************)
(* The driver on a grid of any dimensions, without particles: the frame up *)
(* to the second statement of the tick, and the reset.  (The later         *)
(* statements are modelled for the Rows x Cols grid of Spec.)              *)
(***************************************************************************)
AnyGridInit ==
    /\ \E sim_grid \in {NewGrid(rows, cols, FALSE) : rows \in 1..Rows, cols \in 1..Cols} :
           grid \in {sim_grid, force_edge_solids(sim_grid)}
    /\ call = NoCall
    /\ \E is_paused \in BOOLEAN :
           constraints = [DefaultConstraints EXCEPT !.is_paused = is_paused]
    /\ particles = <<>>
    /\ faucets = <<>>
    /\ drains = <<>>
    /\ commands = NoCommands
    /\ next_entity = 1
    /\ ev_reset = << [age |-> 0] >>
    /\ ev_clear = <<>>
    /\ ev_pause = <<>>
    /\ ev_tool = <<>>
    /\ pc = "idle"
    /\ old_grid = DefaultGrid
    /\ change_grid = DefaultGrid
    /\ frame = 0
    /\ events_sent = 0
    /\ phase_log = <<>>
    /\ ticks_in_frame = 0
    /\ frame_start = [is_paused |-> FALSE, grid |-> DefaultGrid, particles |-> <<>>]
    /\ handled = NoHandled
    /\ tick_start = NoTickStart
    /\ near_drain = FALSE

AnyGridNext ==
    \/ BeginFrame
    \/ UpdateParticles
    \/ PushParticlesApart
    \/ HandleReset
    \/ EndFrame

AnyGridSpec == AnyGridInit /\ [][AnyGridNext]_vars

(***************************************************************************)
(* The last statement of step_simulation_once, entered with particles      *)
(* whose positions the tick has left as numbers or as NaN.                 *)
(***************************************************************************)
\* The positions of the particles when the sweep starts.
SweepPositions == {<<150, 300>>, <<NaN, 300>>, <<150, NaN>>, <<NaN, NaN>>}

\* The grid of a reset with the entities 1..count in the bucket of the cell
\* they were last seen in.
SweepGrid(count) ==
    LET Fill(reset_grid, lookup_index) ==
            [reset_grid EXCEPT
                !.spatial_lookup[lookup_index + 1] = [id \in 1..count |-> id]]
        Seen(reset_grid) ==
            Fill(reset_grid,
                 get_lookup_index(reset_grid,
                                  get_cell_coordinates_from_position(<<150, 300>>)))
    IN  Seen(reset_simulation_to_default(
                 [grid |-> DefaultGrid, constraints |-> DefaultConstraints,
                  particles |-> <<>>, commands |-> NoCommands, next_entity |-> 1],
                 <<>>, <<>>).grid)

SweepInit ==
    \E count \in 1..(MaxEntities - 1) :
        \E positions \in [1..count -> SweepPositions], particle_count \in 0..count :
            /\ grid = SweepGrid(count)
            /\ constraints = [DefaultConstraints EXCEPT !.particle_count = particle_count]
            /\ particles =
                   [id \in 1..count |->
                       [position |-> positions[id], velocity |-> <<0, 0>>,
                        lookup_index |->
                            get_lookup_index(grid,
                                get_cell_coordinates_from_position(<<150, 300>>))]]
            /\ faucets = <<>>
            /\ drains = <<>>
            /\ commands = NoCommands
            /\ next_entity = count + 1
            /\ ev_reset = <<>>
            /\ ev_clear = <<>>
            /\ ev_pause = <<>>
            /\ ev_tool = <<>>
            /\ pc = "nan_sweep"
            /\ old_grid = grid
            /\ change_grid = grid
            /\ frame = 0
            /\ events_sent = 0
            /\ phase_log = SubSeq(PhaseOrder, 1, Len(PhaseOrder) - 1)
            /\ ticks_in_frame = 0
            /\ frame_start = [is_paused |-> FALSE, grid |-> grid, particles |-> particles]
            /\ handled = NoHandled
            /\ tick_start = [live |-> count, particle_count |-> particle_count,
                             clean |-> TRUE, drains |-> 0, faucets |-> 0]
            /\ near_drain = FALSE
            /\ call = NoCall

SweepNext == SweepNaNParticles

SweepSpec == SweepInit /\ [][SweepNext]_vars

(***************************************************************************)
(* The pressure projection, entered with staggered velocities that a tick  *)
(* can hand to it: the middle cell is Fluid, its east and west neighbours  *)
(* vary, and four faces around the middle and the east cell carry a flow.  *)
(***************************************************************************)
ProjectionVelocities == {-8000, 0, 8000}
ProjectionDensities == {0, 1800}

ProjectionGrid(east, west, faces, density) ==
    [DefaultGrid EXCEPT
        !.cell_type[1][1] = "Fluid",
        !.cell_type[1][2] = east,
        !.cell_type[1][0] = west,
        !.velocity_u[1][1] = faces[1],
        !.velocity_u[1][2] = faces[2],
        !.velocity_v[1][1] = faces[3],
        !.velocity_v[1][2] = faces[4],
        !.density[get_lookup_index(DefaultGrid, <<1, 1>>) + 1] = density]

ProjectionInit ==
    \E east \in {"Air", "Fluid", "Solid"}, west \in {"Air", "Solid"},
       faces \in [1..4 -> ProjectionVelocities], density \in ProjectionDensities :
        /\ grid = ProjectionGrid(east, west, faces, density)
        /\ constraints = DefaultConstraints
        /\ particles = <<>>
        /\ faucets = <<>>
        /\ drains = <<>>
        /\ commands = NoCommands
        /\ next_entity = 1
        /\ ev_reset = <<>>
        /\ ev_clear = <<>>
        /\ ev_pause = <<>>
        /\ ev_tool = <<>>
        /\ pc = "make_grid_velocities_incompressible"
        /\ old_grid = grid
        /\ change_grid = grid
        /\ frame = 0
        /\ events_sent = 0
        /\ phase_log = SubSeq(PhaseOrder, 1, 7)
        /\ ticks_in_frame = 0
        /\ frame_start = [is_paused |-> FALSE, grid |-> grid, particles |-> particles]
        /\ handled = NoHandled
        /\ tick_start = [live |-> 0, particle_count |-> 0, clean |-> TRUE,
                         drains |-> 0, faucets |-> 0]
        /\ near_drain = FALSE
        /\ call = NoCall

\* grid_to_particles samples the velocity of a cell of the projected grid.
GetCellVelocity ==
    /\ pc = "create_change_grid"
    /\ \E row \in RowIdx, column \in ColIdx :
           Returned("get_cell_velocity", [row |-> row, column |-> column], grid, "Ok",
                    get_cell_velocity(grid, row, column))

ProjectionNext ==
    \/ MakeGridVelocitiesIncompressible
    \/ GetCellVelocity

ProjectionSpec == ProjectionInit /\ [][ProjectionNext]_vars

(***************************************************************************)
(* The properties of the specification.                                    *)
(***************************************************************************)
\* A tick has returned and handle_events has changed nothing since but the
\* pause flag.
TickDone == pc = "handle_events" /\ ticks_in_frame >= 1 /\ handled.tool = 0

\* The particles a tick has moved that are alive when the frame has ended.
TickParticles == DOMAIN particles \ commands.despawn

BucketsHolding(id) ==
    {lookup_index \in 0..(Len(grid.spatial_lookup) - 1) :
        Contains(grid.spatial_lookup[lookup_index + 1], id)}

LookupIndexOf(position) == get_lookup_index(grid, CellOf(position))

\* C1: bucket consistency.  After every tick and every handled event, each
\* live particle is in exactly one bucket of the spatial lookup, the index of
\* that bucket is the particle's cached lookup_index, and it is the lookup
\* index of the cell of the particle's position.
BucketConsistency ==
    pc \notin TickPhases =>
        \A id \in Live :
            /\ BucketsHolding(id) = {ParticleOf(id).lookup_index}
            /\ ParticleOf(id).lookup_index = LookupIndexOf(ParticleOf(id).position)

\* C2: no particle in a Solid cell.  After a tick that found no particle in a
\* Solid cell, no particle is in a Solid cell.
NoParticleInSolidCell ==
    (TickDone /\ tick_start.clean) =>
        \A id \in TickParticles : ~InSolid(particles[id].position)

MassConservation ==
    (TickDone /\ tick_start.faucets = 0 /\ tick_start.drains = 0) =>
        /\ Cardinality(Live) = tick_start.live
        /\ constraints.particle_count = tick_start.particle_count

\* A tick without faucets and drains has moved two particles.
MassConservationWitness ==
    /\ TickDone
    /\ tick_start.faucets = 0 /\ tick_start.drains = 0
    /\ tick_start.live >= 2

\* C5: drain monotonicity.  A tick that finds one drain and no faucet does not
\* end with more live particles than it found, and it ends with fewer when a
\* particle lay within 1.5 cells of the drain at its drain phase.
DrainMonotonicity ==
    (TickDone /\ tick_start.drains = 1 /\ tick_start.faucets = 0) =>
        /\ Cardinality(Live) <= tick_start.live
        /\ near_drain => Cardinality(Live) < tick_start.live

\* A tick with one drain has found a particle near the drain.
DrainMonotonicityWitness ==
    /\ TickDone
    /\ tick_start.drains = 1 /\ tick_start.faucets = 0
    /\ near_drain

\* C6: phase order.  A tick runs the thirteen phases once each, in the order
\* of PhaseOrder: what it has run so far is the start of PhaseOrder and what it
\* runs next is the phase after, and a tick that has returned has run them all.
PhaseOrderKept ==
    /\ pc \in TickPhases =>
           \E n \in 0..(Len(PhaseOrder) - 1) :
               phase_log = SubSeq(PhaseOrder, 1, n) /\ pc = PhaseOrder[n + 1]
    /\ (pc = "handle_events" /\ ticks_in_frame >= 1) => phase_log = PhaseOrder

\* A tick has returned after its thirteen phases.
PhaseOrderWitness ==
    pc = "handle_events" /\ ticks_in_frame >= 1 /\ Len(phase_log) = Len(PhaseOrder)

\* C7: events are handled after the tick.  No reset, clear or tool event has
\* been handled in a frame while a tick of the frame runs, and in a frame
\* that steps the simulation no event is handled before that tick has returned.
EventsAfterTick ==
    /\ pc \in TickPhases =>
           handled.reset = 0 /\ handled.clear = 0 /\ handled.tool = 0
    /\ (~frame_start.is_paused /\ handled # NoHandled) => ticks_in_frame >= 1

\* A tool event has been handled in a frame, after the tick of the frame.
EventsAfterTickWitness ==
    pc = "handle_events" /\ ~frame_start.is_paused /\ ticks_in_frame = 1
        /\ handled.tool >= 1

\* C8: a step event while paused.  In a frame that finds the simulation
\* paused every step event runs one tick and no other tick runs, and the
\* simulation is paused for as long as no play/pause event is handled.
StepWhilePaused ==
    frame_start.is_paused =>
        /\ pc \notin TickPhases => ticks_in_frame = handled.step
        /\ pc \in TickPhases => handled.step = ticks_in_frame + 1
        /\ handled.pause = 0 => constraints.is_paused

\* A frame that found the simulation paused has handled a step event and run
\* its tick.
StepWhilePausedWitness ==
    /\ frame_start.is_paused /\ pc = "handle_events"
    /\ handled.step = 1 /\ handled.pause = 0 /\ ticks_in_frame = 1
    /\ constraints.is_paused

\* C9: paused and no step event.  A frame that finds the simulation paused and
\* handles no step event runs no tick, and its step logic leaves the grid and
\* the particles as the frame found them.
NoTickWhilePaused ==
    (frame_start.is_paused /\ handled.step = 0) =>
        /\ pc \notin TickPhases
        /\ ticks_in_frame = 0
        /\ handled = NoHandled => grid = frame_start.grid /\ particles = frame_start.particles

\* A paused frame is past its step logic with particles in the simulation.
NoTickWhilePausedWitness ==
    /\ frame_start.is_paused /\ pc = "handle_events"
    /\ handled = NoHandled
    /\ DOMAIN particles # {}

\* A frame has begun, or has ended and the next has not begun.
FrameRan == frame >= 1 \/ pc # "idle"

KnownAround(velocity, row, col) ==
    {n \in (DOMAIN velocity) \X (DOMAIN velocity[row]) :
        /\ n # <<row, col>>
        /\ Abs(n[1] - row) <= 1 /\ Abs(n[2] - col) <= 1
        /\ velocity[n[1]][n[2]] # F32Min}

RECURSIVE SumOfFaces(_, _)
SumOfFaces(velocity, faces) ==
    IF faces = {} THEN 0
    ELSE LET n == CHOOSE face \in faces : TRUE
         IN  velocity[n[1]][n[2]] + SumOfFaces(velocity, faces \ {n})

\* `filled` holds a finite value at every face that has a neighbour with a
\* value in `known`: the value of `known` where there is one, and otherwise
\* the mean of the neighbours' values, rounded to the unit of the model.
HaloFilled(known, filled) ==
    \A row \in DOMAIN known : \A col \in DOMAIN known[row] :
        LET Mean(around, value) ==
                2 * Abs(value * Cardinality(around) - SumOfFaces(known, around))
                    <= Cardinality(around)
            Filled(around, value) ==
                around # {} =>
                    /\ value # F32Min
                    /\ IsFinite(value)
                    /\ IF known[row][col] # F32Min
                       THEN value = known[row][col]
                       ELSE Mean(around, value)
        IN  Filled(KnownAround(known, row, col), filled[row][col])

\* C18: extrapolation fills the depth-1 halo.  When extrapolate_values(grid, 1)
\* has run on the velocities of particles_to_grid, every u face and every v
\* face with a neighbouring face, of the eight around it in the same array,
\* to which particles_to_grid wrote a value holds a finite value that is not
\* the sentinel: the mean of those neighbours where particles_to_grid left
\* the sentinel.
ExtrapolationFillsHalo ==
    pc = "old_grid" =>
        LET Fills(p2g) ==
                /\ HaloFilled(p2g.velocity_u, grid.velocity_u)
                /\ HaloFilled(p2g.velocity_v, grid.velocity_v)
        IN  Fills(particles_to_grid(grid, particles))

\* The extrapolation has given a v face that particles_to_grid left at the
\* sentinel a velocity other than zero.
ExtrapolationWitness ==
    /\ pc = "old_grid"
    /\ LET Halo(p2g) ==
               \E row \in DOMAIN p2g.velocity_v : \E col \in DOMAIN p2g.velocity_v[row] :
                   /\ p2g.velocity_v[row][col] = F32Min
                   /\ KnownAround(p2g.velocity_v, row, col) # {}
                   /\ grid.velocity_v[row][col] \notin {0, F32Min}
       IN  Halo(particles_to_grid(grid, particles))

(***************************************************************************)
(* The properties of the SimGrid methods, under GridSpec.                  *)
(***************************************************************************)
\* The vectors of sim_grid have the sizes that its dimensions give.
Shaped(sim_grid) ==
    LET rows == sim_grid.dimensions[1]
        cols == sim_grid.dimensions[2]
    IN  /\ DOMAIN sim_grid.cell_type = 0..(rows - 1)
        /\ \A row \in 0..(rows - 1) : DOMAIN sim_grid.cell_type[row] = 0..(cols - 1)
        /\ DOMAIN sim_grid.velocity_u = 0..(rows - 1)
        /\ \A row \in 0..(rows - 1) : DOMAIN sim_grid.velocity_u[row] = 0..cols
        /\ DOMAIN sim_grid.velocity_v = 0..rows
        /\ \A row \in 0..rows : DOMAIN sim_grid.velocity_v[row] = 0..(cols - 1)
        /\ Len(sim_grid.spatial_lookup) = rows * cols
        /\ Len(sim_grid.density) = rows * cols

\* Every field of the two grids but cell_type is the same.
SameButCellType(grid_a, grid_b) ==
    /\ grid_a.dimensions = grid_b.dimensions
    /\ grid_a.cell_size = grid_b.cell_size
    /\ grid_a.velocity_u = grid_b.velocity_u
    /\ grid_a.velocity_v = grid_b.velocity_v
    /\ grid_a.spatial_lookup = grid_b.spatial_lookup
    /\ grid_a.density = grid_b.density

\* C11: on a grid whose vectors have the sizes of its dimensions (rows,
\* cols), set_grid_cell_type(row, col, t) returns OutOfGridBounds exactly
\* when row >= rows or col >= cols, and then leaves the whole grid as it
\* was; otherwise it returns Ok, cell_type[row][col] is t and every other
\* cell type and every other field of the grid is as it was.
SetCellTypeContract ==
    (call.op = "set_grid_cell_type" /\ Shaped(call.before)) =>
        LET rows == call.before.dimensions[1]
            cols == call.before.dimensions[2]
        IN  IF call.args.row >= rows \/ call.args.col >= cols
            THEN call.result = "OutOfGridBounds" /\ grid = call.before
            ELSE /\ call.result = "Ok"
                 /\ SameButCellType(grid, call.before)
                 /\ DOMAIN grid.cell_type = 0..(rows - 1)
                 /\ \A row \in 0..(rows - 1) :
                        /\ DOMAIN grid.cell_type[row] = 0..(cols - 1)
                        /\ \A col \in 0..(cols - 1) :
                               grid.cell_type[row][col] =
                                   IF row = call.args.row /\ col = call.args.col
                                   THEN call.args.cell_type
                                   ELSE call.before.cell_type[row][col]

\* A call with a row inside the grid and the column one past the last, on a
\* grid in which an earlier call has made a cell Solid.
SetCellTypeWitness ==
    /\ call.op = "set_grid_cell_type"
    /\ Shaped(call.before)
    /\ call.args.row < call.before.dimensions[1]
    /\ call.args.col = call.before.dimensions[2]
    /\ call.result = "OutOfGridBounds"
    /\ \E row \in DOMAIN grid.cell_type : \E col \in DOMAIN grid.cell_type[row] :
           grid.cell_type[row][col] = "Solid"


\* C12: after force_edge_solids on a grid of R rows and C columns, every
\* cell with row 0 or R - 1 or with column 0 or C - 1 is Solid, and every
\* other cell has the type it had.
EdgeRingSolid ==
    (call.op = "force_edge_solids" /\ Shaped(call.before)) =>
        LET rows == call.before.dimensions[1]
            cols == call.before.dimensions[2]
        IN  /\ call.result = "Ok"
            /\ \A row \in 0..(rows - 1) : \A col \in 0..(cols - 1) :
                   grid.cell_type[row][col] =
                       IF row \in {0, rows - 1} \/ col \in {0, cols - 1}
                       THEN "Solid"
                       ELSE call.before.cell_type[row][col]

\* C13: label_cells leaves every Solid cell Solid, makes every other cell
\* Fluid when its bucket holds a particle and Air when its bucket is empty,
\* and changes nothing else; labelling the result again gives the same cell
\* types.
LabelCellsContract ==
    (call.op = "label_cells" /\ Shaped(call.before)) =>
        LET rows == call.before.dimensions[1]
            cols == call.before.dimensions[2]
            Bucket(row, col) == call.before.spatial_lookup[row * cols + col + 1]
        IN  /\ call.result = "Ok"
            /\ SameButCellType(grid, call.before)
            /\ \A row \in 0..(rows - 1) : \A col \in 0..(cols - 1) :
                   grid.cell_type[row][col] =
                       IF call.before.cell_type[row][col] = "Solid" THEN "Solid"
                       ELSE IF Len(Bucket(row, col)) > 0 THEN "Fluid"
                       ELSE "Air"
            /\ label_cells(grid).cell_type = grid.cell_type

\* label_cells has run on a grid with a Solid cell whose bucket holds a
\* particle and with a cell that is neither Solid nor empty.
LabelCellsWitness ==
    /\ call.op = "label_cells"
    /\ Shaped(call.before)
    /\ \E row \in DOMAIN grid.cell_type : \E col \in DOMAIN grid.cell_type[row] :
           /\ grid.cell_type[row][col] = "Solid"
           /\ Len(grid.spatial_lookup[get_lookup_index(grid, <<row, col>>) + 1]) > 0
    /\ \E row \in DOMAIN grid.cell_type : \E col \in DOMAIN grid.cell_type[row] :
           grid.cell_type[row][col] = "Fluid"

\* The entities of a sequence.
Range(s) == {s[i] : i \in DOMAIN s}

\* C14: get_nearby_particles(index) returns the particles of the buckets of
\* the cell with that lookup index and of its neighbours to the left, right,
\* above, below and on the diagonals that lie in the grid, and of no other
\* bucket.
NearbyIsNeighbourhood ==
    (call.op = "get_nearby_particles" /\ Shaped(call.before)) =>
        LET rows == call.before.dimensions[1]
            cols == call.before.dimensions[2]
            cell_row == call.args.lookup_index \div cols
            cell_col == call.args.lookup_index % cols
            Neighbourhood ==
                {<<row, col>> \in (0..(rows - 1)) \X (0..(cols - 1)) :
                    Abs(row - cell_row) <= 1 /\ Abs(col - cell_col) <= 1}
        IN  /\ call.result = "Ok"
            /\ Range(call.value) =
                   UNION {Range(call.before.spatial_lookup[cell[1] * cols + cell[2] + 1]) :
                              cell \in Neighbourhood}

\* C15: add_particle_to_lookup and remove_particle_from_lookup, called with
\* a lookup index that is the number of buckets or more, return without a
\* panic and leave the grid, every bucket included, as it was.
LookupSkipsOutOfBounds ==
    (/\ call.op \in {"add_particle_to_lookup", "remove_particle_from_lookup"}
     /\ call.args.lookup_index >= Len(call.before.spatial_lookup)) =>
        call.result = "Ok" /\ grid = call.before

(***************************************************************************)
(* The properties of the NaN sweep, under SweepSpec.                       *)
(***************************************************************************)
\* The particles of the query whose position holds a NaN.
NaNParticles ==
    {id \in DOMAIN particles :
        IsNaN(particles[id].position[1]) \/ IsNaN(particles[id].position[2])}

\* C16: when a tick has returned no live particle has NaN in either component
\* of its position: the sweep has deleted every such particle.  Each deletion
\* has taken one off the particle counter the sweep found, and the counter
\* has stopped at zero.
NaNSwept ==
    TickDone =>
        /\ \A id \in Live :
               ~IsNaN(ParticleOf(id).position[1]) /\ ~IsNaN(ParticleOf(id).position[2])
        /\ commands.despawn = NaNParticles
        /\ constraints.particle_count =
               IF tick_start.particle_count >= Cardinality(NaNParticles)
               THEN tick_start.particle_count - Cardinality(NaNParticles)
               ELSE 0
        /\ constraints.particle_count >= 0

\* A tick has returned after its sweep deleted a particle with NaN in the y
\* component alone and kept another, and the counter has gone down.
NaNSweptWitness ==
    /\ TickDone
    /\ \E id \in NaNParticles : ~IsNaN(particles[id].position[1])
    /\ Live # {}
    /\ constraints.particle_count < tick_start.particle_count

\* C17: in every state velocity_u has R rows of C + 1 entries, velocity_v has
\* R + 1 rows of C entries, cell_type has R rows of C entries, and
\* spatial_lookup and density have R * C entries, (R, C) being the dimensions
\* of the grid.
GridShapeKept == Shaped(grid)

\* C19: select_grid_cells(position, radius) returns, for every position
\* inside the grid, as many cell coordinates as the square of cells that
\* covers the selection holds for that radius; a cell of the square outside
\* the grid is replaced by the closest cell of the grid, not dropped.  Every
\* coordinate returned is that of a cell of the grid.
SelectionHasStaticSize ==
    call.op = "select_grid_cells" =>
        LET adj_radius == IF HalfCell >= call.args.radius THEN HalfCell
                          ELSE call.args.radius
            cell_count == ((2 * adj_radius) + CellSize) \div CellSize
        IN  /\ Len(call.value) = cell_count * cell_count
            /\ \A i \in DOMAIN call.value :
                   call.value[i][1] \in RowIdx /\ call.value[i][2] \in ColIdx

(***************************************************************************)
(* The properties of the driver on any grid, under AnyGridSpec.            *)
(***************************************************************************)
\* C20: the driver never panics on simulation data.  On every grid of at
\* least one row and one column, single rows and single columns included,
\* a tick and the handling of an event run to their end: no index out of
\* bounds, no division or remainder by zero, no integer overflow and no
\* failed unwrap stops the program.
DriverNeverPanics == pc # "panic"


(***************************************************************************)
(* The pressure projection.                                                *)
(***************************************************************************)
\* The four neighbours of the cell are cells of the grid and none is Solid.
OpenCell(sim_grid, row, col) ==
    /\ row >= 1 /\ col >= 1
    /\ calculate_cell_solids(sim_grid, row, col) = <<1, 1, 1, 1, 1>>

\* The projection subtracts no compression from the divergence of the cell.
Uncompressed(sim_grid, rest, row, col) ==
    ~(FGt(rest, 0)
      /\ FGt(FSub(sim_grid.density[get_lookup_index(sim_grid, <<row, col>>) + 1], rest), 0))

\* C21: after make_grid_velocities_incompressible has run its iterations
\* (100, which is at least 20), every Fluid cell whose four neighbours are
\* non-Solid cells, and whose density is not compressed, has a divergence
\* smaller in absolute value than before the call.  A cell that had no
\* divergence before the call is read in the claim's favour: it is asked to
\* have none after it.
ProjectionReducesDivergence ==
    (pc = "create_change_grid") =>
        \A row \in RowIdx, col \in ColIdx :
            (/\ old_grid.cell_type[row][col] = "Fluid"
             /\ OpenCell(old_grid, row, col)
             /\ Uncompressed(old_grid, constraints.particle_rest_density, row, col))
            => \/ Abs(calculate_cell_divergence(grid, row, col))
                      < Abs(calculate_cell_divergence(old_grid, row, col))
               \/ /\ calculate_cell_divergence(old_grid, row, col) = 0
                  /\ calculate_cell_divergence(grid, row, col) = 0

(***************************************************************************)
(* The particle counter.                                                   *)
(***************************************************************************)
\* C22: the particle counter is authoritative.  Between frames, after any
\* ticks, drains, sweeps, tool events, clears and resets, the counter
\* constraints.particle_count is the number of live particles.
CounterIsAuthoritative ==
    (pc = "idle") => constraints.particle_count = Cardinality(Live)

(***************************************************************************)
(* Particle integration, under GridSpec.                                   *)
(***************************************************************************)
\* One axis of the stop-at-wall response: the component stops Tolerance
\* outside the face it crossed with velocity 0, or takes the target values.
StoppedAt(position, target, low, high, velocity, after_position, after_velocity) ==
    IF FLe(position, low) /\ FGe(target, low)
    THEN after_position = low - Tolerance /\ after_velocity = 0
    ELSE IF FGe(position, high) /\ FLe(target, high)
    THEN after_position = high + Tolerance /\ after_velocity = 0
    ELSE after_position = target /\ after_velocity = velocity

\* C23: per-axis stop-at-wall integration.  A target inside the grid in a
\* non-Solid cell is committed with the target velocity.  Otherwise each
\* axis on which the prior position and the target lie on opposite sides of
\* a face line of the target's hypothetical cell stops 0.1 outside that
\* face with velocity 0, the other axes take the target values, and the
\* resulting position is never inside the Solid target cell.
StopAtWallIntegration ==
    call.op = "integrate_particle_with_collisions" =>
        LET prior == call.args.particle.position
            target == call.args.target_position
            velocity == call.args.target_velocity
            after == call.value
            cell == get_hypothetical_cell_coordinates_from_position(target)
            center == get_cell_center_position_from_coordinates(cell)
            InGrid == cell[1] \in RowIdx /\ cell[2] \in ColIdx
            Free == /\ is_position_within_grid(target)
                    /\ InGrid
                    /\ grid.cell_type[cell[1]][cell[2]] # "Solid"
            Inside(position) ==
                /\ center[1] - HalfCell < position[1]
                /\ position[1] < center[1] + HalfCell
                /\ center[2] - HalfCell < position[2]
                /\ position[2] < center[2] + HalfCell
        IN  IF Free
            THEN after.position = target /\ after.velocity = velocity
            ELSE /\ StoppedAt(prior[1], target[1], center[1] - HalfCell,
                              center[1] + HalfCell, velocity[1],
                              after.position[1], after.velocity[1])
                 /\ StoppedAt(prior[2], target[2], center[2] - HalfCell,
                              center[2] + HalfCell, velocity[2],
                              after.position[2], after.velocity[2])
                 /\ (InGrid /\ grid.cell_type[cell[1]][cell[2]] = "Solid")
                        => ~Inside(after.position)

(***************************************************************************)
(* The particle-to-grid transfer.                                          *)
(***************************************************************************)
\* The particles with a non-zero influence on the velocity point at pos.
Contributors(pos) ==
    {id \in DOMAIN particles : find_influence(particles[id].position, pos) # 0}

\* What the sentinel rule asks of the face at pos.
SentinelRule(face, skipped, pos, component) ==
    IF skipped \/ Contributors(pos) = {} THEN face = F32Min
    ELSE face = PointVelocity(particles, pos, component)

\* C24: the sentinel rule of particles_to_grid.  After the transfer a face
\* that is skipped (on the outer boundary, or between two Air cells or two
\* Solid cells) holds MIN; a face that is not skipped holds MIN when no
\* particle has a non-zero influence on it, 0 when particles have but their
\* influences sum to zero, and the influence-weighted mean of their
\* velocities otherwise.
SentinelRuleKept ==
    (pc = "extrapolate_values_1") =>
        /\ \A row_index \in RowIdx, col_index \in 0..Cols :
               LET pos == get_velocity_point_pos(row_index, col_index, TRUE)
                   left_center == <<pos[1] - HalfCell, pos[2]>>
                   right_center == <<pos[1] + HalfCell, pos[2]>>
               IN  SentinelRule(grid.velocity_u[row_index][col_index],
                                \/ left_center[1] < 0
                                \/ right_center[1] > GridWidth
                                \/ SkipsPoint(grid, left_center, right_center),
                                pos, 1)
        /\ \A row_index \in 0..Rows, col_index \in ColIdx :
               LET pos == get_velocity_point_pos(row_index, col_index, FALSE)
                   bottom_center == <<pos[1], pos[2] - HalfCell>>
                   top_center == <<pos[1], pos[2] + HalfCell>>
               IN  SentinelRule(grid.velocity_v[row_index][col_index],
                                \/ bottom_center[2] < 0
                                \/ top_center[2] > GridHeight
                                \/ SkipsPoint(grid, bottom_center, top_center),
                                pos, 2)

(***************************************************************************)
(* The velocity of a cell.                                                 *)
(***************************************************************************)
\* C26: get_cell_velocity(r, c) returns, for every cell of the grid, row 0
\* and column 0 included, the mean of the cell's two u faces and the mean
\* of its two v faces.
CellVelocityIsFaceMean ==
    call.op = "get_cell_velocity" =>
        LET row == call.args.row
            column == call.args.column
        IN  call.value =
                << FDiv(FAdd(grid.velocity_u[row][column],
                             grid.velocity_u[row][column + 1]), 2),
                   FDiv(FAdd(grid.velocity_v[row][column],
                             grid.velocity_v[row + 1][column]), 2) >>

(***************************************************************************)
(* The rest density.                                                       *)
(***************************************************************************)
\* C25: particle_rest_density is computed only once.  A call of
\* make_grid_velocities_incompressible that finds it zero assigns it the
\* mean of density[]; a call that finds it non-zero leaves it as it is.
RestDensityComputedOnce ==
    [][(pc = "make_grid_velocities_incompressible") =>
          IF constraints.particle_rest_density = 0
          THEN constraints'.particle_rest_density =
                   FDiv(SumSeq(grid.density, 1), Len(grid.density))
          ELSE constraints'.particle_rest_density = constraints.particle_rest_density]_vars

(***************************************************************************)
(* The AddWall tool.                                                       *)
(***************************************************************************)
\* handle_events handles an AddWall tool event at a position of the grid.
HandlesAddWall ==
    /\ pc = "handle_events"
    /\ ReadsToolEvents
    /\ ev_tool # <<>>
    /\ Head(ev_tool).tool = "AddWall"
    /\ is_position_within_grid(Head(ev_tool).pos)
    /\ handled'.tool = handled.tool + 1

\* C27: AddWall destroys the particles in the cells it solidifies.  When an
\* AddWall tool event at a position of the grid has been handled, every
\* selected cell is Solid, its bucket of the spatial lookup is empty, and no
\* live particle has its position in a selected cell.
AddWallDestroysParticles ==
    [][HandlesAddWall =>
          \A cell \in Range(select_grid_cells(Head(ev_tool).pos, 0)) :
              /\ grid'.cell_type[cell[1]][cell[2]] = "Solid"
              /\ grid'.spatial_lookup[get_lookup_index(grid, cell) + 1] = <<>>
              /\ \A id \in Live' : CellOf(ParticleOf(id).position)' # cell]_vars

(***************************************************************************)
(* Ghost entries of the spatial lookup.                                    *)
(***************************************************************************)
\* The particle ids stored in the buckets of the spatial lookup.
Stored ==
    UNION {Range(grid.spatial_lookup[i]) : i \in DOMAIN grid.spatial_lookup}

\* C28: no ghost entries.  When a tick starts, and when label_cells of a
\* tick has run, every particle id stored in a bucket refers to a live
\* particle: a particle whose deletion was issued earlier in the frame, its
\* despawn still queued, is not put back into a bucket by a later tick of
\* the frame, and label_cells marks no cell Fluid because of it.
NoGhostEntries ==
    (pc \in {"update_particles", "particles_to_grid"}) => Stored \subseteq Live

(***************************************************************************)
(* The faces the projection may change.                                    *)
(***************************************************************************)
\* The type of the cell (row, col), or "Outside" for no cell of the grid.
Side(sim_grid, row, col) ==
    IF row \in RowIdx /\ col \in ColIdx THEN sim_grid.cell_type[row][col]
    ELSE "Outside"

\* The face between cells of these types is shared by a Fluid cell and a
\* cell that is neither Solid nor outside the grid.
OpenFace(first, second) ==
    \/ first = "Fluid" /\ second \in {"Fluid", "Air"}
    \/ second = "Fluid" /\ first \in {"Fluid", "Air"}

\* C29: the projection never changes a wall face.  A face shared by a Fluid
\* cell and a neighbour that is Solid or outside the grid has after
\* make_grid_velocities_incompressible the value it had before, and so has
\* every face that no Fluid cell shares.
ProjectionKeepsWallFaces ==
    (pc = "create_change_grid") =>
        /\ \A row \in RowIdx, col \in 0..Cols :
               grid.velocity_u[row][col] # old_grid.velocity_u[row][col]
                   => OpenFace(Side(old_grid, row, col - 1), Side(old_grid, row, col))
        /\ \A row \in 0..Rows, col \in ColIdx :
               grid.velocity_v[row][col] # old_grid.velocity_v[row][col]
                   => OpenFace(Side(old_grid, row - 1, col), Side(old_grid, row, col))

\* The projection has changed a face of a Fluid cell and has left alone the
\* face the cell shares with a Solid neighbour.
ProjectionKeepsWallFacesWitness ==
    /\ pc = "create_change_grid"
    /\ \E row \in RowIdx, col \in 1..Cols :
           /\ Side(old_grid, row, col - 1) = "Fluid"
           /\ Side(old_grid, row, col) = "Solid"
           /\ calculate_cell_divergence(old_grid, row, col - 1) # 0
           /\ grid.velocity_u[row][col] = old_grid.velocity_u[row][col]
           /\ grid.velocity_v[row][col - 1] # old_grid.velocity_v[row][col - 1]

\* A step event is handled while the simulation is running.
StepHandledWhileRunning ==
    pc = "handle_events" /\ handled'.step = handled.step + 1 /\ ~constraints.is_paused

\* A play/pause event that is not a step event is handled.
PlayPauseHandled == handled'.pause = handled.pause + 1

\* The update system returns.
FrameEnds == pc # "idle" /\ pc' = "idle"

\* C30: a step event while the simulation is running.  Handling the event sets
\* is_paused and starts one tick from event handling; a frame that found the
\* simulation running and handled that one step event and no play/pause event
\* ends after exactly two ticks, paused; from then on the pause is lifted only
\* by handling an event, a frame that begins paused starts no tick and a paused
\* frame that handles no event ends after no tick.  A play/pause event that is
\* not a step event toggles is_paused and nothing else: no tick starts, and
\* the grid and the particles stay as they are.
StepWhileRunning ==
    [][ /\ StepHandledWhileRunning =>
            /\ constraints'.is_paused
            /\ pc' = "update_particles"
            /\ ticks_in_frame' = ticks_in_frame
        /\ (FrameEnds /\ ~frame_start.is_paused /\ handled.step = 1 /\ handled.pause = 0) =>
            /\ ticks_in_frame = 2
            /\ constraints'.is_paused
        /\ (constraints.is_paused /\ ~constraints'.is_paused) => handled' # handled
        /\ (pc = "idle" /\ pc' # "idle" /\ constraints.is_paused) =>
            /\ pc' = "handle_events"
            /\ ticks_in_frame' = 0
        /\ (FrameEnds /\ frame_start.is_paused /\ handled = NoHandled) =>
            /\ ticks_in_frame = 0
            /\ constraints'.is_paused
        /\ PlayPauseHandled =>
            /\ constraints' = [constraints EXCEPT !.is_paused = ~@]
            /\ pc' = pc
            /\ ticks_in_frame' = ticks_in_frame
            /\ grid' = grid /\ particles' = particles
      ]_vars

\* A frame that found the simulation running has handled one step event and
\* ended, paused, after its two ticks.
StepWhileRunningWitness ==
    /\ pc = "idle" /\ frame >= 1
    /\ ~frame_start.is_paused
    /\ handled.step = 1 /\ handled.pause = 0
    /\ ticks_in_frame = 2
    /\ constraints.is_paused

=========================================================================
